---- MODULE Spec2Model ----
(***************************************************************************)
(* The filter composition and deterministic-randomness model of the        *)
(* problemgenerator: filters (filters.py) attached to an Array node        *)
(* (array.py), parameterised through a shared parameter mapping and driven *)
(* by a seeded random source.                                              *)
(*                                                                         *)
(* Numbers.  A tensor element is an exact rational <<n, d>> with d >= 1 in *)
(* lowest terms; <<0, 0>> is NaN and <<1, 0>>, <<-1, 0>> are +inf, -inf.   *)
(* float64 values are idealised as rationals (no rounding).  A tensor is a *)
(* record [dtype, elems]: elems is the row-major flattening of the array,  *)
(* which is the order of np.ndenumerate and of RandomState.rand.           *)
(*                                                                         *)
(* Random source.  RandomState(seed) is a deterministic stream of draws;   *)
(* its state is [seed, pos].  The uniform draws take the values Draws of   *)
(* [0, 1), and the stream of a seed is its expansion in base Len(Draws),   *)
(* so the seeds range over every sequence of draws of length SeedDigits.   *)
(***************************************************************************)
EXTENDS Integers, Sequences, FiniteSets, TLC

VARIABLES
  inst,     \* the filter objects: id -> [kind, ids, attrs]
  params,   \* the parameter mapping last passed to set_params (params_dict)
  filters,  \* Array.filters of the node, a sequence of filter ids
  last,     \* the last call: its arguments, the objects it started from, and
            \* the tensor, the random source and the exception it left
  ref,      \* a remembered earlier call, to compare a later one with
  driver,   \* the run of main in run.py: its locals and the global numpy source
  area      \* an area filter's apply call in progress: its locals, and where
            \* in the seed loop it is

vars == <<inst, params, filters, last, ref, driver, area>>

---------------------------------------------------------------------------
(* Bounds of the model *)

MaxLen == 2
SeedDigits == 3
MaxPos == 2
MaxIdentity == 2
MaxDraws == 19

---------------------------------------------------------------------------
(* Numbers *)

NaN == <<0, 0>>
PosInf == <<1, 0>>
NegInf == <<-1, 0>>

Abs(x) == IF x < 0 THEN 0 - x ELSE x

RECURSIVE GCD(_, _)
GCD(a, b) == IF b = 0 THEN a ELSE GCD(b, a % b)

\* The element of a set of one element. An operator evaluates its argument
\* wherever it refers to it; the value of { e : x \in {v} } is made of v once.
The(S) == CHOOSE v \in S : TRUE

\* The float n / d in lowest terms, for whole n and d.
Rat(n, d) ==
  The({The({<<(s * p) \div g, (s * q) \div g>> :
            s \in {IF q < 0 THEN 0 - 1 ELSE 1}, g \in {GCD(Abs(p), Abs(q))}}) :
       p \in {n}, q \in {d}})

Num(n) == <<n, 1>>
IsNaN(x) == x = NaN
IsInf(x) == x[2] = 0 /\ x[1] # 0
IsFinite(x) == x[2] > 0
IsWhole(x) == x[2] = 1

FloorDiv(x, y) == IF y > 0 THEN x \div y ELSE (0 - x) \div (0 - y)
TruncDiv(x, y) ==
  LET q == Abs(x) \div Abs(y)
  IN  IF (x < 0) = (y < 0) THEN q ELSE 0 - q

\* a < b and a <= b of two floats: false when either is NaN; the infinities
\* are below and above every finite number.
Less(a, b) ==
  /\ ~IsNaN(a)
  /\ ~IsNaN(b)
  /\ IF IsInf(a) /\ IsInf(b) THEN a[1] < b[1] ELSE a[1] * b[2] < b[1] * a[2]
LessEq(a, b) ==
  /\ ~IsNaN(a)
  /\ ~IsNaN(b)
  /\ IF IsInf(a) /\ IsInf(b) THEN a[1] <= b[1] ELSE a[1] * b[2] <= b[1] * a[2]

\* Bitwise operators of Python integers (two's complement, unbounded).
BitAnd1(x, y) == IF x = 1 /\ y = 1 THEN 1 ELSE 0
BitOr1(x, y) == IF x = 1 \/ y = 1 THEN 1 ELSE 0
BitXor1(x, y) == IF x # y THEN 1 ELSE 0
Bit1(kind, x, y) ==
  CASE kind = "And" -> BitAnd1(x, y)
    [] kind = "Or" -> BitOr1(x, y)
    [] kind = "Xor" -> BitXor1(x, y)

RECURSIVE Bitwise(_, _, _)
Bitwise(kind, x, y) ==
  IF x \in {0, 0 - 1} /\ y \in {0, 0 - 1}
  THEN 0 - Bit1(kind, x % 2, y % 2)
  ELSE Bit1(kind, x % 2, y % 2) + 2 * Bitwise(kind, x \div 2, y \div 2)

RatAdd(a, b) ==
  The({Rat(x[1] * y[2] + y[1] * x[2], x[2] * y[2]) : x \in {a}, y \in {b}})
RatSub(a, b) ==
  The({Rat(x[1] * y[2] - y[1] * x[2], x[2] * y[2]) : x \in {a}, y \in {b}})
RatMul(a, b) == The({Rat(x[1] * y[1], x[2] * y[2]) : x \in {a}, y \in {b}})
RatFloor(a, b) == Num(FloorDiv(a[1] * b[2], a[2] * b[1]))

Val(v) == [v |-> v, err |-> ""]
Raise(e) == [v |-> NaN, err |-> e]

\* What the model does not cover: arithmetic on an infinite operand, and the
\* float floor division by zero, whose result differs between numpy releases.
Unmodelled == "unmodelled"

BinaryKinds ==
  {"Addition", "Subtraction", "Multiplication", "Division", "IntegerDivision",
   "Modulo", "And", "Or", "Xor", "Max", "Min"}

\* self.operation(element_a, element_b) of the BinaryFilter subclass `kind`, for
\* two numpy scalars of the tensor's dtype.
Operation(kind, a, b, dtype) ==
  CASE IsInf(a) \/ IsInf(b) -> Raise(Unmodelled)
    [] kind = "Max" -> Val(IF Less(a, b) THEN b ELSE a)
    [] kind = "Min" -> Val(IF Less(b, a) THEN b ELSE a)
    [] kind \in {"And", "Or", "Xor"} ->
         IF dtype = "int" THEN Val(Num(Bitwise(kind, a[1], b[1])))
         ELSE Raise("TypeError")
    [] IsNaN(a) \/ IsNaN(b) -> Val(NaN)
    [] kind = "Addition" -> Val(RatAdd(a, b))
    [] kind = "Subtraction" -> Val(RatSub(a, b))
    [] kind = "Multiplication" -> Val(RatMul(a, b))
    [] kind = "Division" ->
         IF b[1] # 0 THEN Val(Rat(a[1] * b[2], a[2] * b[1]))
         ELSE IF a[1] = 0 THEN Val(NaN)
         ELSE IF a[1] > 0 THEN Val(PosInf) ELSE Val(NegInf)
    [] kind = "IntegerDivision" ->
         IF b[1] # 0 THEN Val(RatFloor(a, b))
         ELSE IF dtype = "int" THEN Val(Num(0)) ELSE Raise(Unmodelled)
    [] kind = "Modulo" ->
         IF b[1] # 0 THEN Val(RatSub(a, RatMul(b, RatFloor(a, b))))
         ELSE IF dtype = "int" THEN Val(Num(0)) ELSE Val(NaN)

\* node_data[index] = v: numpy converts the scalar to the array's dtype.
Store(dtype, v) ==
  IF dtype = "float" THEN Val(v)
  ELSE IF IsNaN(v) THEN Raise("ValueError")
  ELSE IF IsInf(v) THEN Raise("OverflowError")
  ELSE Val(Num(TruncDiv(v[1], v[2])))

---------------------------------------------------------------------------
(* The random source *)

RECURSIVE Pow(_, _)
Pow(b, e) == IF e = 0 THEN 1 ELSE b * Pow(b, e - 1)

\* The values of [0, 1) a uniform draw takes: 0.0 and 0.5.
Draws == <<Rat(0, 2), Rat(1, 2)>>

Seeds == 0 .. (Pow(Len(Draws), SeedDigits) - 1)

\* np.random.RandomState(seed=s)
RandomState(s) == [seed |-> s, pos |-> 0]

\* The digit of the seed the i-th draw of a source in state r is made of
\* (i >= 1). A seed has SeedDigits digits; the digits past them are 0.
Digit(r, i) ==
  IF r.pos + i > SeedDigits THEN 0
  ELSE (r.seed \div Pow(Len(Draws), r.pos + i - 1)) % Len(Draws)

\* The i-th uniform draw a source in state r returns next (i >= 1).
Rand(r, i) == Draws[Digit(r, i) + 1]

Advance(r, n) == [r EXCEPT !.pos = @ + n]

---------------------------------------------------------------------------
(* Filter objects and set_params *)

\* Filter.__init__ of each subclass: the constructor stores the keys it was
\* given; Gap also starts in the working state.
NewFilter(kind, ids) ==
  [kind |-> kind, ids |-> ids,
   attrs |-> IF kind = "Gap" THEN ("working" :> TRUE) ELSE << >>]

\* A filter of the modules run.py and the examples import
\* (src.problemgenerator.filters, problemgenerator.filter), which are not
\* among the sources. The call sites give its constructor the values
\* themselves (GaussianNoise(0, std), Missing(prob), Missing(probability=.2))
\* and call no set_params on it; Array.process calls its apply with the data
\* and the index tuple.
ValueFilter(kind, attrs) ==
  [kind |-> kind, ids |-> << >>, attrs |-> attrs, takes |-> "index_tuple"]

TakesIndexTuple(o) == "takes" \in DOMAIN o

\* ApplyToTuple.__init__(ftr, tuple_index): the constructor is given the
\* filter object and the index themselves.
ApplyToTuple(ftr, tuple_index) ==
  [kind |-> "ApplyToTuple", ids |-> << >>,
   attrs |-> [ftr |-> ftr, tuple_index |-> tuple_index]]

\* The attributes set_params assigns from the mapping, in the order of the
\* assignments, the i-th from the key ids[i].
AttrNames(kind) ==
  CASE kind = "Missing" -> <<"probability">>
    [] kind = "Gap" -> <<"prob_break", "prob_recover", "missing_value">>
    [] kind = "Constant" -> <<"value">>
    [] kind = "Clip" -> <<"min", "max">>
    [] kind = "GaussianNoise" -> <<"mean", "std">>
    [] kind = "GaussianNoiseTimeDependent" ->
         <<"mean", "mean_increase", "std", "std_increase">>
    [] kind = "SensorDrift" -> <<"magnitude">>
    [] kind = "Uppercase" -> <<"prob">>
    [] kind = "OCRError" -> <<"normalized_params", "p">>
    [] kind = "MissingArea" -> <<"probability", "radius_generator", "missing_value">>
    [] kind = "ApplyWithProbability" -> <<"ftr", "probability">>
    [] kind = "ModifyAsDataType" -> <<"dtype", "ftr">>
    [] kind = "StrangeBehaviour" -> <<"do_strange_behaviour">>
    [] kind = "ResolutionVectorized" -> <<"k">>
    [] kind = "ClipWAV" -> <<"dyn_range">>
    [] kind = "StainArea" ->
         <<"probability", "radius_generator", "transparency_percentage">>
    [] kind = "FastRain" -> <<"probability", "range">>
    [] kind = "Snow" ->
         <<"snowflake_probability", "snowflake_alpha", "snowstorm_alpha">>
    [] kind = "JPEG_Compression" -> <<"quality">>
    [] kind = "Blur_Gaussian" -> <<"std">>
    [] kind = "Blur" -> <<"repeats">>
    [] kind = "Rotation" -> <<"angle">>
    [] kind \in {"BrightnessVectorized", "SaturationVectorized"} ->
         <<"tar", "rat", "range">>
    [] kind \in BinaryKinds -> <<"filter_a", "filter_b">>
    \* Identity, LensFlare and ApplyToTuple assign nothing of the mapping
    [] OTHER -> << >>

\* The attributes that hold a child filter, in the order set_params resolves
\* the children.
ChildAttrs(kind) ==
  CASE kind \in {"ApplyWithProbability", "ModifyAsDataType", "ApplyToTuple"} ->
         <<"ftr">>
    [] kind \in BinaryKinds -> <<"filter_a", "filter_b">>
    [] OTHER -> << >>

SetMin(S) == CHOOSE x \in S : \A y \in S : x <= y

\* The assignments self.x = params_dict[self.x_id], one after another: the first
\* key the mapping lacks raises KeyError and the assignments after it are not made.
Resolve(o, P) ==
  LET names == AttrNames(o.kind)
      miss == {j \in 1 .. Len(names) : o.ids[j] \notin DOMAIN P}
      done == IF miss = {} THEN 1 .. Len(names) ELSE 1 .. (SetMin(miss) - 1)
      set == {names[j] : j \in done}
  IN  [attrs |-> [a \in (DOMAIN o.attrs) \cup set |->
                    IF a \in set
                    THEN P[o.ids[CHOOSE j \in done : names[j] = a]]
                    ELSE o.attrs[a]],
       err |-> IF miss = {} THEN "" ELSE "KeyError"]

\* Mutant: the key of the Identity filter is the same on every call.
IdentityKeyFixed(P) == "identity" \o ToString(0)

\* generate_random_dict_key(params_dict, "identity"): a key the mapping does
\* not hold yet. The random suffix is taken to be the least free number.
IdentityKey(P) ==
  "identity" \o
    ToString(SetMin({k \in 0 .. Cardinality(DOMAIN P) :
                       ("identity" \o ToString(k)) \notin DOMAIN P}))

\* The Subtraction object a Difference filter owns (self.ftr).
OwnedId(f) == f \o ".ftr"

\* Mutant: set_params leaves the sensor in the state it is in.
GapResetSkipped(attrs) == attrs

\* self.working = True of Gap.set_params
GapReset(attrs) == [attrs EXCEPT !.working = TRUE]

\* Mutant: the Difference filter builds Subtraction(Identity, filter).
DifferenceFtrSwapped(o, key) == NewFilter("Subtraction", <<key, o.ids[1]>>)

\* self.ftr = Subtraction(self.ftr_id, identity_key) of Difference.set_params
DifferenceFtr(o, key) == NewFilter("Subtraction", <<o.ids[1], key>>)

RECURSIVE SetParams(_, _, _)
RECURSIVE SetChildren(_, _, _, _)

\* Mutant: a composite does not pass the mapping on to its children.
SetChildrenSkipped(f, names, j, st) == st

\* ftr.set_params(params_dict) for the children of f, in order; st is
\* [inst, params, err] so far.
SetChildren(f, names, j, st) ==
  IF j > Len(names) \/ st.err # "" THEN st
  ELSE SetChildren(f, names, j + 1,
                   SetParams(st.inst[f].attrs[names[j]], st.params, st.inst))

\* f.set_params(params_dict) with params_dict = P and the objects I: the
\* objects and the mapping afterwards, and the exception raised.
SetParams(f, P, I) ==
  LET o == I[f]
      r == Resolve(o, P)
      I1 == [I EXCEPT ![f].attrs = r.attrs]
  IN  CASE o.kind = "Difference" ->
             LET key == IdentityKey(P)
                 sub == OwnedId(f)
                 P2 == [k \in (DOMAIN P) \cup {key} |->
                          IF k = key THEN key ELSE P[k]]
                 I2 == [x \in (DOMAIN I) \cup {key, sub} |->
                          IF x = key THEN NewFilter("Identity", << >>)
                          ELSE IF x = sub
                          THEN DifferenceFtr(o, key)
                          ELSE IF x = f
                          THEN [o EXCEPT !.attrs = ("ftr" :> sub)]
                          ELSE I[x]]
             IN  SetParams(sub, P2, I2)
        [] r.err # "" -> [inst |-> I1, params |-> P, err |-> r.err]
        [] o.kind = "Gap" ->
             [inst |-> [I1 EXCEPT ![f].attrs = GapReset(@)],
              params |-> P, err |-> ""]
        [] OTHER ->
             SetChildren(f, ChildAttrs(o.kind), 1,
                         [inst |-> I1, params |-> P, err |-> ""])

---------------------------------------------------------------------------
(* apply *)

Tensor(dtype, elems) == [dtype |-> dtype, elems |-> elems]

Result(T, R, I, e) == [data |-> T, rng |-> R, inst |-> I, err |-> e]

\* Missing.apply: one uniform draw per element, drawn at once; the elements
\* whose draw is <= probability become NaN. An integer array cannot take NaN:
\* numpy fails to convert the value before it writes anything.
MissingApply(o, T, R, I) ==
  LET n == Len(T.elems)
      mask == [i \in 1 .. n |-> LessEq(Rand(R, i), o.attrs.probability)]
  IN  IF T.dtype = "int" THEN Result(T, Advance(R, n), I, "ValueError")
      ELSE Result([T EXCEPT !.elems = [i \in 1 .. n |->
                     IF mask[i] THEN NaN ELSE T.elems[i]]],
                  Advance(R, n), I, "")

\* Mutant: the sensor breaks and recovers on draw <= probability.
UpdateWorkingStateLe(working, u, attrs) ==
  IF working THEN ~LessEq(u, attrs.prob_break) ELSE LessEq(u, attrs.prob_recover)

\* update_working_state of Gap.apply, for the uniform draw u: the state after.
UpdateWorkingState(working, u, attrs) ==
  IF working THEN ~Less(u, attrs.prob_break) ELSE Less(u, attrs.prob_recover)

\* Mutant: the element is overwritten by the state the sensor was in before
\* the transition.
RECURSIVE GapWalkOverwriteFirst(_, _, _, _, _)
GapWalkOverwriteFirst(st, i, attrs, dtype, R) ==
  IF i > Len(st.elems) \/ st.err # "" THEN st
  ELSE LET w == UpdateWorkingState(st.working, Rand(R, i), attrs)
           s == Store(dtype, attrs.missing_value)
           st1 == [st EXCEPT !.working = w, !.used = i]
       IN  GapWalkOverwriteFirst(IF st.working THEN st1
                                 ELSE IF s.err # "" THEN [st1 EXCEPT !.err = s.err]
                                 ELSE [st1 EXCEPT !.elems[i] = s.v],
                                 i + 1, attrs, dtype, R)

\* The loop of Gap.apply from element i on; st is [elems, working, used, err].
RECURSIVE GapWalk(_, _, _, _, _)
GapWalk(st, i, attrs, dtype, R) ==
  IF i > Len(st.elems) \/ st.err # "" THEN st
  ELSE LET w == UpdateWorkingState(st.working, Rand(R, i), attrs)
           s == Store(dtype, attrs.missing_value)
           st1 == [st EXCEPT !.working = w, !.used = i]
       IN  GapWalk(IF w THEN st1
                   ELSE IF s.err # "" THEN [st1 EXCEPT !.err = s.err]
                   ELSE [st1 EXCEPT !.elems[i] = s.v],
                   i + 1, attrs, dtype, R)

\* Mutant: every apply call starts from the working state.
GapApplyFromWorking(f, T, R, I) ==
  LET st == GapWalk([elems |-> T.elems, working |-> TRUE,
                     used |-> 0, err |-> ""], 1, I[f].attrs, T.dtype, R)
  IN  Result([T EXCEPT !.elems = st.elems], Advance(R, st.used),
             [I EXCEPT ![f].attrs.working = st.working], st.err)

GapApply(f, T, R, I) ==
  LET st == GapWalk([elems |-> T.elems, working |-> I[f].attrs.working,
                     used |-> 0, err |-> ""], 1, I[f].attrs, T.dtype, R)
  IN  Result([T EXCEPT !.elems = st.elems], Advance(R, st.used),
             [I EXCEPT ![f].attrs.working = st.working], st.err)

\* Constant.apply: node_data.fill(self.value)
ConstantApply(o, T, R, I) ==
  LET s == Store(T.dtype, o.attrs.value)
  IN  IF s.err # "" THEN Result(T, R, I, s.err)
      ELSE Result([T EXCEPT !.elems = [i \in 1 .. Len(T.elems) |-> s.v]], R, I, "")

\* The combining loop of BinaryFilter.apply over the children's results ea, eb:
\* element by element, up to the first element whose operation or store raises.
BinaryCombine(kind, T, ea, eb) ==
  LET n == Len(T.elems)
      op == [i \in 1 .. n |-> Operation(kind, ea[i], eb[i], T.dtype)]
      st == [i \in 1 .. n |-> IF op[i].err # "" THEN op[i]
                               ELSE Store(T.dtype, op[i].v)]
      bad == {i \in 1 .. n : st[i].err # ""}
      stop == IF bad = {} THEN n + 1 ELSE SetMin(bad)
  IN  [elems |-> [i \in 1 .. n |-> IF i < stop THEN st[i].v ELSE T.elems[i]],
       err |-> IF bad = {} THEN "" ELSE st[stop].err]

\* node_data.shape: a tensor without a shape field is one-dimensional.
Shape(T) == IF "shape" \in DOMAIN T THEN T.shape ELSE <<Len(T.elems)>>

\* a + b of two floats that are finite or NaN
Plus(a, b) == IF IsNaN(a) \/ IsNaN(b) THEN NaN ELSE RatAdd(a, b)

\* ndarray.astype(dtype) of one element. The integer numpy makes of NaN or of
\* an infinity depends on the platform.
Astype(dtype, v) ==
  IF dtype = "float" THEN Val(v)
  ELSE IF IsFinite(v) THEN Val(Num(TruncDiv(v[1], v[2])))
  ELSE Raise(Unmodelled)

\* Whether a value of a mapping is a Python float: the mappings give whole
\* numbers as int and the others as float.
IsFloat(v) == ~IsWhole(v)

\* The standard normal deviates of the source: the deviate takes the values -1
\* and 1, one stream position each, at the positions where the uniform draw
\* takes 0.0 and 0.5.
Deviates == <<Num(0 - 1), Num(1)>>

\* The i-th value random_state.normal(loc, scale) returns next (i >= 1).
Normal(r, i, loc, scale) == RatAdd(loc, RatMul(scale, Deviates[Digit(r, i) + 1]))

\* Mutant: only the upper bound is applied.
ClipUpperOnly(o, T, R, I) ==
  Result([T EXCEPT !.elems = [i \in 1 .. Len(T.elems) |->
            IF Less(o.attrs.max, T.elems[i]) THEN o.attrs.max ELSE T.elems[i]]],
         R, I, "")

\* Clip.apply: np.clip(node_data, self.min, self.max, out=node_data), which is
\* minimum(maximum(x, min), max) and lets NaN through. What numpy does with a
\* fractional bound on an integer array depends on its release.
ClipApply(o, T, R, I) ==
  LET lo == o.attrs.min
      hi == o.attrs.max
      up(x) == IF Less(x, lo) THEN lo ELSE x
      down(x) == IF Less(hi, x) THEN hi ELSE x
  IN  IF T.dtype = "int" /\ (IsFloat(lo) \/ IsFloat(hi))
      THEN Result(T, R, I, Unmodelled)
      ELSE Result([T EXCEPT !.elems = [i \in 1 .. Len(T.elems) |->
                     IF IsNaN(T.elems[i]) THEN NaN ELSE down(up(T.elems[i]))]],
                  R, I, "")

\* GaussianNoise.apply: node_data += normal(mean, std, shape).astype(dtype);
\* normal raises on a negative scale before it draws.
GaussianNoiseApply(o, T, R, I) ==
  LET n == Len(T.elems)
      noise == [i \in 1 .. n |->
                  Astype(T.dtype, Normal(R, i, o.attrs.mean, o.attrs.std)).v]
  IN  IF Less(o.attrs.std, Num(0)) THEN Result(T, R, I, "ValueError")
      ELSE Result([T EXCEPT !.elems = [i \in 1 .. n |-> Plus(T.elems[i], noise[i])]],
                  Advance(R, n), I, "")

\* Mutant: the noise is drawn before the time is looked up.
GaussianNoiseTimeDependentDrawFirst(o, T, R, I, named_dims) ==
  IF "time" \notin DOMAIN named_dims
  THEN Result(T, Advance(R, Len(T.elems)), I, "KeyError")
  ELSE Result([T EXCEPT !.elems = [i \in 1 .. Len(T.elems) |->
                 Plus(T.elems[i],
                      Normal(R, i,
                             RatAdd(o.attrs.mean,
                                    RatMul(o.attrs.mean_increase, named_dims.time)),
                             RatAdd(o.attrs.std,
                                    RatMul(o.attrs.std_increase, named_dims.time))))]],
              Advance(R, Len(T.elems)), I, "")

\* GaussianNoiseTimeDependent.apply: time = named_dims["time"], then
\* node_data += normal(mean + mean_increase * time, std + std_increase * time).
\* The noise is a float array: numpy refuses to add it to an integer array in
\* place, after the draws.
GaussianNoiseTimeDependentApply(o, T, R, I, named_dims) ==
  IF "time" \notin DOMAIN named_dims THEN Result(T, R, I, "KeyError")
  ELSE
    LET n == Len(T.elems)
        time == named_dims.time
        loc == RatAdd(o.attrs.mean, RatMul(o.attrs.mean_increase, time))
        scale == RatAdd(o.attrs.std, RatMul(o.attrs.std_increase, time))
    IN  IF Less(scale, Num(0)) THEN Result(T, R, I, "ValueError")
        ELSE IF T.dtype = "int" THEN Result(T, Advance(R, n), I, "TypeError")
        ELSE Result([T EXCEPT !.elems = [i \in 1 .. n |->
                       Plus(T.elems[i], Normal(R, i, loc, scale))]],
                    Advance(R, n), I, "")

\* Mutant: the drift starts at zero, np.arange(0, n) * magnitude.
SensorDriftFromZero(o, T, R, I) ==
  Result([T EXCEPT !.elems = [i \in 1 .. Len(T.elems) |->
            Plus(T.elems[i], RatMul(Num(i - 1), o.attrs.magnitude))]], R, I, "")

\* Mutant: the drift of every step is the magnitude plus a uniform draw.
SensorDriftJittered(o, T, R, I) ==
  Result([T EXCEPT !.elems = [i \in 1 .. Len(T.elems) |->
            Plus(T.elems[i],
                 RatMul(Num(i), RatAdd(o.attrs.magnitude, Rand(R, 1))))]],
         Advance(R, 1), I, "")

\* SensorDrift.apply: increases = np.arange(1, shape[0] + 1) * magnitude, then
\* node_data += increases.reshape(node_data.shape). reshape raises unless the
\* array has shape[0] elements; numpy refuses to add a float array to an
\* integer array in place.
SensorDriftApply(o, T, R, I) ==
  LET n == Shape(T)[1]
      increases == [i \in 1 .. n |-> RatMul(Num(i), o.attrs.magnitude)]
  IN  IF n # Len(T.elems) THEN Result(T, R, I, "ValueError")
      ELSE IF T.dtype = "int" /\ IsFloat(o.attrs.magnitude)
      THEN Result(T, R, I, "TypeError")
      ELSE Result([T EXCEPT !.elems = [i \in 1 .. n |->
                     Plus(T.elems[i], increases[i])]], R, I, "")

\* The lowercase letters of ASCII and their uppercase forms.
LowerLetters ==
  <<"a", "b", "c", "d", "e", "f", "g", "h", "i", "j", "k", "l", "m", "n",
    "o", "p", "q", "r", "s", "t", "u", "v", "w", "x", "y", "z">>
UpperLetters ==
  <<"A", "B", "C", "D", "E", "F", "G", "H", "I", "J", "K", "L", "M", "N",
    "O", "P", "Q", "R", "S", "T", "U", "V", "W", "X", "Y", "Z">>

\* char.upper() of one character, as a sequence of characters. A character is
\* written as a one-letter string; "U+00DF" stands for the German sharp s,
\* whose uppercase form is the two letters SS. The characters of the model
\* are those of ASCII and the sharp s.
Upper(c) ==
  IF c = "U+00DF" THEN <<"S", "S">>
  ELSE IF \E k \in 1 .. Len(LowerLetters) : LowerLetters[k] = c
  THEN <<UpperLetters[CHOOSE k \in 1 .. Len(LowerLetters) : LowerLetters[k] = c]>>
  ELSE <<c>>

\* "".join over the characters of a string from the j-th on, the k-th character
\* of the whole array taking the k-th draw: stochastic_upper of Uppercase.apply.
RECURSIVE StochasticUpper(_, _, _, _, _)
StochasticUpper(str, j, k, R, prob) ==
  IF j > Len(str) THEN << >>
  ELSE (IF LessEq(Rand(R, k + j), prob) THEN Upper(str[j]) ELSE <<str[j]>>)
       \o StochasticUpper(str, j + 1, k, R, prob)

\* The number of characters in the strings before the i-th.
RECURSIVE CharsBefore(_, _)
CharsBefore(elems, i) ==
  IF i <= 1 THEN 0 ELSE CharsBefore(elems, i - 1) + Len(elems[i - 1])

\* node_data[index] = string on an array of fixed-width strings: numpy keeps
\* the first width characters.
StoreString(width, str) ==
  IF Len(str) <= width THEN str ELSE SubSeq(str, 1, width)

\* Mutant: the array takes the whole string whatever its item width.
UppercaseUntruncated(o, T, R, I) ==
  Result([T EXCEPT !.elems = [i \in 1 .. Len(T.elems) |->
            StochasticUpper(T.elems[i], 1, CharsBefore(T.elems, i), R,
                            o.attrs.prob)]],
         Advance(R, CharsBefore(T.elems, Len(T.elems) + 1)), I, "")

\* Uppercase.apply: every string of the array, character by character, one
\* draw per character.
UppercaseApply(o, T, R, I) ==
  Result([T EXCEPT !.elems = [i \in 1 .. Len(T.elems) |->
            StoreString(T.width,
                        StochasticUpper(T.elems[i], 1, CharsBefore(T.elems, i),
                                        R, o.attrs.prob))]],
         Advance(R, CharsBefore(T.elems, Len(T.elems) + 1)), I, "")

\* random_state.choice(chars, 1, p=probs)[0] for the uniform draw u: the first
\* character whose cumulated probability exceeds u.
RECURSIVE Cumulated(_, _)
Cumulated(probs, k) == IF k = 0 THEN Num(0) ELSE RatAdd(Cumulated(probs, k - 1), probs[k])

Choice(chars, probs, u) ==
  chars[Cardinality({k \in 1 .. Len(probs) : LessEq(Cumulated(probs, k), u)}) + 1]

\* generate_ocr_errors from the j-th character of the string on: replace_char
\* draws for a character of the table, and draws again to choose its
\* replacement when the first draw is below p; st is [out, used].
RECURSIVE GenerateOcrErrors(_, _, _, _, _)
GenerateOcrErrors(str, j, st, R, attrs) ==
  IF j > Len(str) THEN st
  ELSE GenerateOcrErrors(str, j + 1,
         IF str[j] \notin DOMAIN attrs.normalized_params
         THEN [st EXCEPT !.out = Append(@, str[j])]
         ELSE IF ~Less(Rand(R, st.used + 1), attrs.p)
         THEN [out |-> Append(st.out, str[j]), used |-> st.used + 1]
         ELSE [out |-> Append(st.out,
                              Choice(attrs.normalized_params[str[j]].chars,
                                     attrs.normalized_params[str[j]].probs,
                                     Rand(R, st.used + 2))),
               used |-> st.used + 2],
         R, attrs)

\* The loop of OCRError.apply from the i-th string on; st is [elems, used].
RECURSIVE OcrWalk(_, _, _, _, _)
OcrWalk(T, i, st, R, attrs) ==
  IF i > Len(T.elems) THEN st
  ELSE OcrWalk(T, i + 1,
         [elems |-> Append(st.elems,
                      StoreString(T.width,
                        GenerateOcrErrors(T.elems[i], 1,
                                          [out |-> << >>, used |-> st.used],
                                          R, attrs).out)),
          used |-> GenerateOcrErrors(T.elems[i], 1,
                                     [out |-> << >>, used |-> st.used],
                                     R, attrs).used],
         R, attrs)

\* What OCRError.apply leaves once the loop has left st.
OcrResult(T, R, I, st) ==
  Result([T EXCEPT !.elems = st.elems], Advance(R, st.used), I, "")

\* OCRError.apply
OCRErrorApply(o, T, R, I) ==
  OcrResult(T, R, I, OcrWalk(T, 1, [elems |-> << >>, used |-> 0], R, o.attrs))

RECURSIVE Apply(_, _, _, _)

\* Mutant: both children work on one copy of node_data, filter_b on what
\* filter_a left.
BinaryApplyShared(f, T, R, I) ==
  LET o == I[f]
      ra == Apply(o.attrs.filter_a, T, R, I)
      rb == Apply(o.attrs.filter_b, ra.data, ra.rng, ra.inst)
      c == BinaryCombine(o.kind, T, ra.data.elems, rb.data.elems)
  IN  IF ra.err # "" THEN Result(T, ra.rng, ra.inst, ra.err)
      ELSE IF rb.err # "" THEN Result(T, rb.rng, rb.inst, rb.err)
      ELSE Result([T EXCEPT !.elems = c.elems], rb.rng, rb.inst, c.err)

\* Mutant: filter_b is applied before filter_a.
BinaryApplyBFirst(f, T, R, I) ==
  LET o == I[f]
      rb == Apply(o.attrs.filter_b, T, R, I)
      ra == Apply(o.attrs.filter_a, T, rb.rng, rb.inst)
      c == BinaryCombine(o.kind, T, ra.data.elems, rb.data.elems)
  IN  IF rb.err # "" THEN Result(T, rb.rng, rb.inst, rb.err)
      ELSE IF ra.err # "" THEN Result(T, ra.rng, ra.inst, ra.err)
      ELSE Result([T EXCEPT !.elems = c.elems], ra.rng, ra.inst, c.err)

\* BinaryFilter.apply: two copies of node_data, filter_a on the first and then
\* filter_b on the second, then the element-wise operation into node_data.
BinaryApply(f, T, R, I) ==
  LET o == I[f]
      data_a == T
      data_b == T
      ra == Apply(o.attrs.filter_a, data_a, R, I)
      rb == Apply(o.attrs.filter_b, data_b, ra.rng, ra.inst)
      c == BinaryCombine(o.kind, T, ra.data.elems, rb.data.elems)
  IN  IF ra.err # "" THEN Result(T, ra.rng, ra.inst, ra.err)
      ELSE IF rb.err # "" THEN Result(T, rb.rng, rb.inst, rb.err)
      ELSE Result([T EXCEPT !.elems = c.elems], rb.rng, rb.inst, c.err)

\* Mutant: the inner filter starts from the source as it was before the
\* decision draw.
ApplyWithProbabilityRedraw(f, T, R, I) ==
  LET o == I[f]
  IN  IF Less(Rand(R, 1), o.attrs.probability)
      THEN Apply(o.attrs.ftr, T, R, I)
      ELSE Result(T, Advance(R, 1), I, "")

\* ApplyWithProbability.apply
ApplyWithProbabilityApply(f, T, R, I) ==
  LET o == I[f]
  IN  IF Less(Rand(R, 1), o.attrs.probability)
      THEN Apply(o.attrs.ftr, T, Advance(R, 1), I)
      ELSE Result(T, Advance(R, 1), I, "")

\* node_data.copy().astype(dtype): the copy, or the element numpy converts
\* in a platform-dependent way.
AstypeAll(T, dtype) ==
  LET c == [i \in 1 .. Len(T.elems) |-> Astype(dtype, T.elems[i])]
  IN  [data |-> [T EXCEPT !.dtype = dtype,
                          !.elems = [i \in 1 .. Len(T.elems) |-> c[i].v]],
       err |-> IF \E i \in 1 .. Len(T.elems) : c[i].err # "" THEN Unmodelled ELSE ""]

\* What ModifyAsDataType.apply leaves once the inner filter has left r of the
\* copy: the copy converted back and stored element by element.
ModifyAsDataTypeFrom(T, r) ==
  IF r.err # "" THEN Result(T, r.rng, r.inst, r.err)
  ELSE LET back == AstypeAll(r.data, T.dtype)
       IN  IF back.err # "" THEN Result(T, r.rng, r.inst, back.err)
           ELSE Result([T EXCEPT !.elems = back.data.elems], r.rng, r.inst, "")

\* Mutant: the inner filter works on node_data itself.
ModifyAsDataTypeInPlace(f, T, R, I) == Apply(I[f].attrs.ftr, T, R, I)

\* ModifyAsDataType.apply
ModifyAsDataTypeApply(f, T, R, I) ==
  LET copy == AstypeAll(T, I[f].attrs.dtype)
  IN  IF copy.err # "" THEN Result(T, R, I, copy.err)
      ELSE ModifyAsDataTypeFrom(T, Apply(I[f].attrs.ftr, copy.data, R, I))

\* The functions a caller hands to StrangeBehaviour: lambda v, rs: v * 10,
\* lambda v, rs: rs.rand(), and the function of the tests that answers -300
\* for the values from 15 to 20 and the value it is given for the others. i is the number of the draw the call makes, were it to draw.
do_strange_behaviour(fn, v, R, i) ==
  CASE fn = "times_ten" -> IF IsNaN(v) THEN NaN ELSE RatMul(v, Num(10))
    [] fn = "rand" -> Rand(R, i)
    [] fn = "strange" ->
         IF LessEq(Num(15), v) /\ LessEq(v, Num(20)) THEN Num(0 - 300) ELSE v

\* The draws one call of the function makes.
StrangeDraws(fn) == IF fn = "rand" THEN 1 ELSE 0

\* The loop of StrangeBehaviour.apply from the i-th element of
\* np.ndenumerate on: node_data[index] = do_strange_behaviour(node_data[index],
\* random_state); st is [elems, rng, err].
RECURSIVE StrangeWalk(_, _, _, _)
StrangeWalk(st, i, fn, dtype) ==
  IF i > Len(st.elems) \/ st.err # "" THEN st
  ELSE LET v == Store(dtype, do_strange_behaviour(fn, st.elems[i], st.rng, 1))
       IN  StrangeWalk([elems |-> IF v.err = "" THEN [st.elems EXCEPT ![i] = v.v]
                                  ELSE st.elems,
                        rng |-> Advance(st.rng, StrangeDraws(fn)),
                        err |-> v.err],
                       i + 1, fn, dtype)

\* StrangeBehaviour.apply
StrangeBehaviourApply(o, T, R, I) ==
  LET st == StrangeWalk([elems |-> T.elems, rng |-> R, err |-> ""], 1,
                        o.attrs.do_strange_behaviour, T.dtype)
  IN  Result([T EXCEPT !.elems = st.elems], st.rng, I, st.err)

\* ResolutionVectorized.apply: row, col = (np.indices((h, w)) // k) * k and
\* node_data[...] = node_data[row, col], for a whole k >= 0. An array of one
\* dimension has no shape[1]; the integer division by 0 gives 0.
ResolutionVectorizedApply(o, T, R, I) ==
  LET shape == Shape(T)
      k == o.attrs.k[1]
      snap(i) == IF k = 0 THEN 0 ELSE (i \div k) * k
  IN  IF Len(shape) < 2 THEN Result(T, R, I, "IndexError")
      ELSE IF Len(shape) > 2 \/ ~IsWhole(o.attrs.k) \/ k < 0
      THEN Result(T, R, I, Unmodelled)
      ELSE LET w == shape[2]
           IN  Result([T EXCEPT !.elems = [i \in 1 .. Len(T.elems) |->
                         T.elems[snap((i - 1) \div w) * w + snap((i - 1) % w) + 1]]],
                      R, I, "")

\* min(data) of Python from the i-th element on: m is the least so far, and an
\* element replaces it when element < m.
RECURSIVE Least(_, _, _)
Least(elems, i, m) ==
  IF i > Len(elems) THEN m
  ELSE Least(elems, i + 1, IF Less(elems[i], m) THEN elems[i] ELSE m)

\* max(data) of Python from the i-th element on.
RECURSIVE Greatest(_, _, _)
Greatest(elems, i, m) ==
  IF i > Len(elems) THEN m
  ELSE Greatest(elems, i + 1, IF Less(m, elems[i]) THEN elems[i] ELSE m)

\* clip_audio(data, dyn_range) of ClipWAV.apply, before the astype: np.clip
\* to middle -+ half_range * dyn_range, which is
\* minimum(maximum(x, lower_limit), upper_limit), NaN when x or a limit is.
clip_audio(elems, dyn_range) ==
  LET min_ == Least(elems, 2, elems[1])
      max_ == Greatest(elems, 2, elems[1])
      half_range == RatSub(RatMul(Rat(1, 2), max_), RatMul(Rat(1, 2), min_))
      middle == RatMul(RatAdd(min_, max_), Rat(1, 2))
      new_half_range == RatMul(half_range, dyn_range)
      upper_limit == RatAdd(middle, new_half_range)
      lower_limit == RatSub(middle, new_half_range)
      up(x) == IF Less(x, lower_limit) THEN lower_limit ELSE x
      down(x) == IF Less(upper_limit, x) THEN upper_limit ELSE x
  IN  [i \in 1 .. Len(elems) |->
         IF IsNaN(min_) \/ IsNaN(max_) \/ IsNaN(elems[i]) THEN NaN
         ELSE down(up(elems[i]))]

\* ClipWAV.apply: node_data[:] = clip_audio(node_data, dyn_range), on an
\* array of one dimension; min of an empty array raises ValueError.
ClipWAVApply(o, T, R, I) ==
  IF Len(Shape(T)) # 1 \/ T.dtype = "str" THEN Result(T, R, I, Unmodelled)
  ELSE IF T.elems = << >> THEN Result(T, R, I, "ValueError")
  ELSE LET c == clip_audio(T.elems, o.attrs.dyn_range)
           a == [i \in 1 .. Len(c) |-> Astype(T.dtype, c[i])]
       IN  IF \E i \in 1 .. Len(c) : a[i].err # "" THEN Result(T, R, I, Unmodelled)
           ELSE Result([T EXCEPT !.elems = [i \in 1 .. Len(c) |-> a[i].v]],
                       R, I, "")

\* ApplyToTuple.apply: self.ftr.apply(node_data[self.tuple_index], ...), for
\* a tuple T of arrays; the inner filter changes that array in place.
ApplyToTupleApply(f, T, R, I) ==
  LET o == I[f]
      k == IF o.attrs.tuple_index < 0 THEN Len(T) + o.attrs.tuple_index + 1
           ELSE o.attrs.tuple_index + 1
  IN  IF k \notin DOMAIN T THEN Result(T, R, I, "IndexError")
      ELSE LET r == Apply(o.attrs.ftr, T[k], R, I)
           IN  Result([T EXCEPT ![k] = r.data], r.rng, r.inst, r.err)

\* f.apply(node_data, random_state, named_dims) with node_data = T,
\* random_state = R and the objects I: the tensor, the random source and the
\* objects afterwards, and the exception raised.
Apply(f, T, R, I) ==
  LET o == I[f]
  IN  CASE o.kind = "Missing" -> MissingApply(o, T, R, I)
        [] o.kind = "Gap" -> GapApply(f, T, R, I)
        [] o.kind = "Constant" -> ConstantApply(o, T, R, I)
        [] o.kind = "Identity" -> Result(T, R, I, "")
        [] o.kind \in BinaryKinds -> BinaryApply(f, T, R, I)
        [] o.kind = "Difference" -> Apply(o.attrs.ftr, T, R, I)
        [] o.kind = "ApplyWithProbability" -> ApplyWithProbabilityApply(f, T, R, I)
        [] o.kind = "Clip" -> ClipApply(o, T, R, I)
        [] o.kind = "GaussianNoise" -> GaussianNoiseApply(o, T, R, I)
        [] o.kind = "SensorDrift" -> SensorDriftApply(o, T, R, I)
        [] o.kind = "Uppercase" -> UppercaseApply(o, T, R, I)
        [] o.kind = "OCRError" -> OCRErrorApply(o, T, R, I)
        [] o.kind = "ModifyAsDataType" -> ModifyAsDataTypeApply(f, T, R, I)
        [] o.kind = "StrangeBehaviour" -> StrangeBehaviourApply(o, T, R, I)
        [] o.kind = "ResolutionVectorized" -> ResolutionVectorizedApply(o, T, R, I)
        [] o.kind = "ClipWAV" -> ClipWAVApply(o, T, R, I)
        [] o.kind = "ApplyToTuple" -> ApplyToTupleApply(f, T, R, I)

\* apply with the named dimensions the node supplies. Only
\* GaussianNoiseTimeDependent reads them; it is attached to the node itself.
ApplyIn(f, T, R, I, named_dims) ==
  IF I[f].kind = "GaussianNoiseTimeDependent"
  THEN GaussianNoiseTimeDependentApply(I[f], T, R, I, named_dims)
  ELSE Apply(f, T, R, I)

---------------------------------------------------------------------------
(* The filters the pipeline author has constructed, and the mappings *)

BinaryIds == <<"filter_a", "filter_b">>

\* Every filter of filters.py is constructed with the keys of its parameters;
\* a binary filter is named after its class. The two filters of the examples,
\* filter.Missing(probability=...) and filter.GaussianNoise(0, ...), hold
\* values.
Objects ==
  [x \in {"missing", "gap", "const", "ident", "awp", "diff", "diff2", "madt",
          "clip",
          "noise", "gntd", "drift", "upper", "ocr", "filter.Missing",
          "filter.GaussianNoise", "strange", "resolution", "clipwav",
          "totuple", "tolast", "tonone", "missingarea", "stain", "rain",
          "snow", "jpeg", "gauss", "blur", "rotation", "brightness",
          "saturation", "flare"} \cup BinaryKinds |->
     CASE x = "missing" -> NewFilter("Missing", <<"prob">>)
       [] x = "filter.Missing" ->
            ValueFilter("Missing", [probability |-> Rat(1, 4)])
       [] x = "filter.GaussianNoise" ->
            ValueFilter("GaussianNoise", [mean |-> Num(0), std |-> Num(1)])
       [] x = "gap" ->
            NewFilter("Gap", <<"prob_break", "prob_recover", "missing_value">>)
       [] x = "const" -> NewFilter("Constant", <<"value">>)
       [] x = "ident" -> NewFilter("Identity", << >>)
       [] x = "awp" -> NewFilter("ApplyWithProbability", <<"ftr", "awp_prob">>)
       [] x = "diff" -> NewFilter("Difference", <<"filter_a">>)
       [] x = "diff2" -> NewFilter("Difference", <<"ftr">>)
       [] x = "madt" -> NewFilter("ModifyAsDataType", <<"dtype", "ftr">>)
       [] x = "clip" -> NewFilter("Clip", <<"min", "max">>)
       [] x = "noise" -> NewFilter("GaussianNoise", <<"mean", "std">>)
       [] x = "gntd" ->
            NewFilter("GaussianNoiseTimeDependent",
                      <<"mean", "mean_increase", "std", "std_increase">>)
       [] x = "drift" -> NewFilter("SensorDrift", <<"magnitude">>)
       [] x = "upper" -> NewFilter("Uppercase", <<"prob">>)
       [] x = "ocr" -> NewFilter("OCRError", <<"probs", "p">>)
       [] x = "strange" -> NewFilter("StrangeBehaviour", <<"f">>)
       [] x = "resolution" -> NewFilter("ResolutionVectorized", <<"k">>)
       [] x = "clipwav" -> NewFilter("ClipWAV", <<"dyn_range">>)
       [] x = "totuple" -> ApplyToTuple("missing", 1)
       [] x = "tolast" -> ApplyToTuple("drift", 0 - 1)
       [] x = "tonone" -> ApplyToTuple("missing", 2)
       [] x = "missingarea" ->
            NewFilter("MissingArea", <<"prob", "radius_generator", "missing_value">>)
       [] x = "stain" ->
            NewFilter("StainArea", <<"prob", "radius_generator", "transparency">>)
       [] x = "rain" -> NewFilter("FastRain", <<"prob", "range">>)
       [] x = "snow" ->
            NewFilter("Snow", <<"snowflake_prob", "snowflake_alpha",
                                "snowstorm_alpha">>)
       [] x = "jpeg" -> NewFilter("JPEG_Compression", <<"quality">>)
       [] x = "gauss" -> NewFilter("Blur_Gaussian", <<"std">>)
       [] x = "blur" -> NewFilter("Blur", <<"repeats">>)
       [] x = "rotation" -> NewFilter("Rotation", <<"angle">>)
       [] x = "brightness" ->
            NewFilter("BrightnessVectorized", <<"tar", "rat", "range">>)
       [] x = "saturation" ->
            NewFilter("SaturationVectorized", <<"tar", "rat", "range">>)
       [] x = "flare" -> NewFilter("LensFlare", << >>)
       [] OTHER -> NewFilter(x, BinaryIds)]

\* The keys the pipeline author chose.
Keys ==
  {"prob", "prob_break", "prob_recover", "missing_value", "value", "ftr",
   "awp_prob", "filter_a", "filter_b", "dtype"}

\* The keys of Clip, GaussianNoise, GaussianNoiseTimeDependent, SensorDrift,
\* OCRError, StrangeBehaviour, ResolutionVectorized and ClipWAV.
NumericKeys ==
  {"min", "max", "mean", "std", "mean_increase", "std_increase", "magnitude",
   "probs", "p", "f", "k", "dyn_range"}

\* The filters of images, and MissingArea.
ImageFilters ==
  {"missingarea", "stain", "rain", "snow", "jpeg", "gauss", "blur", "rotation",
   "brightness", "saturation", "flare"}

\* The keys of the filters of images.
ImageKeys ==
  {"radius_generator", "transparency", "range", "snowflake_prob",
   "snowflake_alpha", "snowstorm_alpha", "quality", "repeats", "angle", "tar",
   "rat"}

\* The probabilities of a seed: 1/4, at which numpy's geometric uses the
\* inversion, and 2/5 and 1, at which it uses the search.
SeedProbs == {Rat(1, 4), Rat(2, 5), Num(1)}

\* The probabilities of MissingArea on texts: those of a seed, and 0, at
\* which apply returns at once.
AreaProbs == {Rat(1, 4), Rat(2, 5), Num(1), Num(0)}

\* The table of the radius generator: radius 0 or 1.
RadiusTables == {<<Rat(1, 2), Rat(1, 2)>>}

\* The parameters of Snow: the flake covers four fifths of a pixel at its
\* centre, and the storm one half.
SnowAttrs == [snowflake_alpha |-> Rat(4, 5), snowstorm_alpha |-> Rat(1, 2)]

\* The transparency of a stain: black and half.
Transparencies == {Num(0), Rat(1, 2)}

\* The ranges of the colours FastRain and the two colour filters are told.
Ranges == {1, 255}

\* The numbers of passes Blur is told.
Repeats == 0 .. 2

\* The mappings that hold every key of an image filter.
ImageMappings(f) ==
  CASE f = "missingarea" ->
         {[prob |-> p, radius_generator |-> t, missing_value |-> " "] :
            p \in SeedProbs, t \in RadiusTables}
    [] f = "stain" ->
         {[prob |-> p, radius_generator |-> t, transparency |-> c] :
            p \in SeedProbs, t \in RadiusTables, c \in Transparencies}
    [] f = "rain" -> {[prob |-> p, range |-> r] : p \in SeedProbs, r \in Ranges}
    [] f = "snow" ->
         {[snowflake_prob |-> p, snowflake_alpha |-> SnowAttrs.snowflake_alpha,
           snowstorm_alpha |-> SnowAttrs.snowstorm_alpha] : p \in SeedProbs}
    [] f = "jpeg" -> {[quality |-> q] : q \in {Num(10), Num(90)}}
    [] f = "gauss" -> {[std |-> v] : v \in {Num(0), Num(1)}}
    [] f = "blur" -> {[repeats |-> n] : n \in Repeats}
    [] f = "rotation" -> {[angle |-> v] : v \in {Num(0), Num(90)}}
    [] f \in {"brightness", "saturation"} ->
         {[tar |-> t, rat |-> v, range |-> r] :
            t \in {Num(0), Num(1)}, v \in {Num(0), Rat(1, 2)}, r \in Ranges}
    [] OTHER -> {<< >>}

\* The mappings a caller passes to an image filter: one with every key, or
\* with one key left out.
ImageKeyMappings(f) ==
  ImageMappings(f) \cup
    UNION {{[k \in (DOMAIN m) \ {out} |-> m[k]] : out \in DOMAIN m} :
             m \in ImageMappings(f)}

\* The probabilities the mappings give: below, at and above the draw 0.5, and
\* at the draw 0.0.
Probs == {Num(0), Rat(1, 2), Num(1)}

MissingValues == {NaN, Num(0 - 1)}

MissingMappings == {[prob |-> p] : p \in Probs}

GapMappings ==
  {[prob_break |-> pb, prob_recover |-> pr, missing_value |-> mv] :
     pb \in Probs, pr \in Probs, mv \in MissingValues}

\* The tensors the caller feeds: np.arange(1, n + 1) in either dtype.
Arange(dtype, n) == Tensor(dtype, [i \in 1 .. n |-> Num(i)])
Tensors == {Arange(dtype, n) : dtype \in {"int", "float"}, n \in 1 .. MaxLen}

---------------------------------------------------------------------------
(* Calls on the filters of an Array node *)

Range(q) == {q[i] : i \in DOMAIN q}

\* Whether set_params has given f, and the filters below it, every attribute
\* apply reads.
RECURSIVE Ready(_, _)
Ready(f, I) ==
  LET o == I[f]
  IN  IF o.kind = "Difference"
      THEN "ftr" \in DOMAIN o.attrs /\ Ready(o.attrs.ftr, I)
      ELSE /\ Range(AttrNames(o.kind)) \subseteq DOMAIN o.attrs
           /\ \A c \in Range(ChildAttrs(o.kind)) : Ready(o.attrs[c], I)

EmptyTensor == Tensor("float", << >>)

\* A call: op on the filter f with the tensor data0, the random source rng0 and
\* the mapping params0, started with the objects inst0; it left data and rng
\* and raised err ("" when it returned). log lists the apply calls a process
\* call made: the filter, the data it was handed and the data it left.
Call(op, f, T, R, I, P, r) ==
  [op |-> op, f |-> f, data0 |-> T, rng0 |-> R, inst0 |-> I, params0 |-> P,
   data |-> r.data, rng |-> r.rng, err |-> r.err, log |-> << >>]

NoCall ==
  Call("", "", EmptyTensor, RandomState(0), << >>, << >>,
       Result(EmptyTensor, RandomState(0), << >>, ""))

\* Array.addfilter. It also copies the node's shape to the filter; no filter
\* reads that attribute.
addfilter(f) ==
  /\ filters' = Append(filters, f)
  /\ last' = [NoCall EXCEPT !.op = "addfilter", !.f = f]
  /\ UNCHANGED <<inst, params, ref, driver, area>>

\* f.set_params(m) on a filter of the node, m being the caller's mapping.
SetParamsCall(f, m) ==
  /\ f \in Range(filters)
  /\ \E r \in {SetParams(f, m, inst)} :
       /\ Cardinality((DOMAIN r.params) \ (Keys \cup NumericKeys \cup ImageKeys))
            <= MaxIdentity
       /\ inst' = r.inst
       /\ params' = r.params
       /\ last' = [NoCall EXCEPT !.op = "set_params", !.f = f, !.params0 = m,
                                 !.err = r.err]
       /\ UNCHANGED <<filters, ref, driver, area>>

\* Mutant: the filter draws from a source of the process, which the previous
\* call left, and not from the source it is handed.
ApplyCallGlobalSource(f, T, R) ==
  /\ f \in Range(filters)
  /\ Ready(f, inst)
  /\ R.pos <= MaxPos
  /\ \E r \in {Apply(f, T, last.rng, inst)} :
       /\ r.err # Unmodelled
       /\ inst' = r.inst
       /\ last' = Call("apply", f, T, R, inst, params, r)
       /\ UNCHANGED <<filters, params, ref, driver, area>>

\* f.apply(T, R, named_dims) on a filter of the node that set_params has
\* resolved, for a tensor T and a random source R of the caller.
ApplyCall(f, T, R) ==
  /\ f \in Range(filters)
  /\ Ready(f, inst)
  /\ R.pos <= MaxPos
  /\ \E r \in {Apply(f, T, R, inst)} :
       /\ r.err # Unmodelled
       /\ inst' = r.inst
       /\ last' = Call("apply", f, T, R, inst, params, r)
       /\ UNCHANGED <<filters, params, ref, driver, area>>

\* f.apply(T, R, named_dims) with the named dimensions the caller supplies.
ApplyInCall(f, T, R, named_dims) ==
  /\ f \in Range(filters)
  /\ Ready(f, inst)
  /\ R.pos <= MaxPos
  /\ \E r \in {ApplyIn(f, T, R, inst, named_dims)} :
       /\ r.err # Unmodelled
       /\ inst' = r.inst
       /\ last' = [dims |-> named_dims] @@ Call("apply", f, T, R, inst, params, r)
       /\ UNCHANGED <<filters, params, ref, driver, area>>

\* Missing(probability) of the examples and of run.py, by the words of the
\* specification: a Bernoulli mask at probability, one draw per element, and
\* the masked elements set to the missing sentinel, NaN for floats. No
\* sentinel is named for integers. The filter is handed no random source: G
\* is the state of whatever source it draws from.
ValueMissing(o, T, G, I) ==
  LET n == Len(T.elems)
      mask == [i \in 1 .. n |-> Less(Rand(G, i), o.attrs.probability)]
  IN  IF T.dtype = "int" /\ \E i \in 1 .. n : mask[i]
      THEN Result(T, Advance(G, n), I, Unmodelled)
      ELSE Result([T EXCEPT !.elems = [i \in 1 .. n |->
                     IF mask[i] THEN NaN ELSE T.elems[i]]],
                  Advance(G, n), I, "")

\* GaussianNoise(mean, std) of the examples and of run.py, by the words of
\* the specification: noise drawn once per element from Normal(mean, std),
\* cast to the element type of the tensor and added. A negative std is no
\* deviation: normal() of numpy raises ValueError on it before it draws.
ValueGaussianNoise(o, T, G, I) ==
  LET n == Len(T.elems)
      noise == [i \in 1 .. n |->
                  Astype(T.dtype, Normal(G, i, o.attrs.mean, o.attrs.std)).v]
  IN  IF Less(o.attrs.std, Num(0)) THEN Result(T, G, I, "ValueError")
      ELSE Result([T EXCEPT !.elems = [i \in 1 .. n |-> Plus(T.elems[i], noise[i])]],
                  Advance(G, n), I, "")

\* f.apply(data, (index_tuple)), the call Array.process makes: two arguments,
\* no random source among them. apply of every class of filters.py has the
\* parameters node_data, random_state and named_dims: the call lacks an
\* argument and raises TypeError before the body runs, so nothing is drawn
\* and nothing is written. A filter of the examples takes the two arguments
\* and draws from a source of its own, in the state G.
ApplyIndexed(f, T, index_tuple, G, I) ==
  IF ~TakesIndexTuple(I[f]) THEN Result(T, G, I, "TypeError")
  ELSE IF I[f].kind = "Missing" THEN ValueMissing(I[f], T, G, I)
  ELSE ValueGaussianNoise(I[f], T, G, I)

\* The loop of Array.process from the j-th filter of q on: each filter's apply
\* on the one data object, up to the first that raises; st is
\* [data, rng, inst, err, log], rng the source the filters of the examples
\* draw from.
RECURSIVE ProcessFrom(_, _, _, _)
ProcessFrom(q, j, index_tuple, st) ==
  IF j > Len(q) \/ st.err # "" THEN st
  ELSE LET r == ApplyIndexed(q[j], st.data, index_tuple, st.rng, st.inst)
       IN  ProcessFrom(q, j + 1, index_tuple,
                       [data |-> r.data, rng |-> r.rng, inst |-> r.inst,
                        err |-> r.err,
                        log |-> Append(st.log, [f |-> q[j], seen |-> st.data,
                                                left |-> r.data])])

\* Array.process(data, index_tuple) on the filters q of the node:
\* for f in self.filters: f.apply(data, (index_tuple)). process has no
\* parameter for a random source and hands apply none; G is the state of the
\* source a filter of the examples draws from.
Process(q, T, index_tuple, G, I) ==
  ProcessFrom(q, 1, index_tuple,
              [data |-> T, rng |-> G, inst |-> I, err |-> "", log |-> << >>])

\* node.process(T, index_tuple) while the source of the filters of the
\* examples is in the state G. The call needs
\* no filter to be resolved: no apply of filters.py gets as far as reading an
\* attribute.
ProcessCall(T, index_tuple, G) ==
  /\ G.pos <= MaxPos
  /\ \E r \in {Process(filters, T, index_tuple, G, inst)} :
       /\ r.err # Unmodelled
       /\ inst' = r.inst
       /\ last' = [Call("process", "", T, G, inst, params, r) EXCEPT !.log = r.log]
       /\ UNCHANGED <<filters, params, ref, driver, area>>

\* process(data, param_mapping, random_source) of the Array node that has
\* generate_error, from the j-th filter of q on: each filter's
\* apply(data, random_source, named_dims) in list order, up to the first that
\* raises; st is [data, rng, inst, err, log].
RECURSIVE NodeProcessFrom(_, _, _)
NodeProcessFrom(q, j, st) ==
  IF j > Len(q) \/ st.err # "" THEN st
  ELSE LET r == Apply(q[j], st.data, st.rng, st.inst)
       IN  NodeProcessFrom(q, j + 1,
                           [data |-> r.data, rng |-> r.rng, inst |-> r.inst,
                            err |-> r.err,
                            log |-> Append(st.log, [f |-> q[j], seen |-> st.data,
                                                    left |-> r.data])])

NodeProcess(q, T, R, I) ==
  NodeProcessFrom(q, 1, [data |-> T, rng |-> R, inst |-> I, err |-> "", log |-> << >>])

\* set_params(params_dict) on the filters of the node from the j-th on, up to
\* the first that raises; st is [inst, params, err].
RECURSIVE SetAll(_, _, _)
SetAll(q, j, st) ==
  IF j > Len(q) \/ st.err # "" THEN st
  ELSE SetAll(q, j + 1, SetParams(q[j], st.params, st.inst))

\* What generate_error leaves once set_params has run on every filter and left
\* sp: the exception of set_params, or else what process leaves of the copy.
GenerateFrom(q, copy, R, sp) ==
  IF sp.err # ""
  THEN [data |-> copy, rng |-> R, inst |-> sp.inst, err |-> sp.err,
        params |-> sp.params]
  ELSE [p \in {"params"} |-> sp.params] @@ NodeProcess(q, copy, R, sp.inst)

\* node.generate_error(T, m, R): the node hands the mapping m to every filter
\* and processes a copy of T with the source R; the copy is what it returns.
GenerateError(q, T, m, R, I) ==
  GenerateFrom(q, T, R, SetAll(q, 1, [inst |-> I, params |-> m, err |-> ""]))

GenerateErrorCall(T, m, R) ==
  \E r \in {GenerateError(filters, T, m, R, inst)} :
    /\ r.err # Unmodelled
    /\ inst' = r.inst
    /\ params' = r.params
    /\ last' = Call("generate_error", "", T, R, inst, m, r)
    /\ UNCHANGED <<filters, ref, driver, area>>

\* main of run.py has not started.
NoDriver == [pc |-> "idle"]

\* No apply call of an area filter is in progress.
NoArea == [pc |-> "idle"]

\* The caller keeps the outcome of the last call to compare a later one with.
Remember(op) ==
  /\ ref = NoCall
  /\ last.op = op
  /\ ref' = last
  /\ UNCHANGED <<inst, params, filters, last, driver, area>>

---------------------------------------------------------------------------
(* A node with one filter, Missing or Gap *)

Init ==
  /\ inst = Objects
  /\ params = << >>
  /\ filters = << >>
  /\ last = NoCall
  /\ ref = NoCall
  /\ driver = NoDriver
  /\ area = NoArea

Sources == {RandomState(s) : s \in Seeds}

LeafMappings(f) ==
  CASE f = "missing" -> MissingMappings
    [] f = "gap" -> GapMappings

AttachLeaf == \E f \in {"missing", "gap"} : filters = << >> /\ addfilter(f)

ResolveLeaf == \E f \in Range(filters) : \E m \in LeafMappings(f) : SetParamsCall(f, m)

ApplyLeaf ==
  \E f \in Range(filters) : \E T \in Tensors : \E R \in Sources \cup {last.rng} :
    ApplyCall(f, T, R)

Next == AttachLeaf \/ ResolveLeaf \/ ApplyLeaf

Spec == Init /\ [][Next]_vars

---------------------------------------------------------------------------
(* Claims about Gap and Missing *)

Applied(kind) ==
  /\ last.op = "apply"
  /\ last.err = ""
  /\ last.inst0[last.f].kind = kind

\* The Markov chain of the sensor over the draws u_i .. u_n of the source R:
\* the state after the last element.
RECURSIVE ChainEnd(_, _, _, _, _)
ChainEnd(w, R, i, n, attrs) ==
  IF i > n THEN w
  ELSE ChainEnd(IF w THEN ~Less(Rand(R, i), attrs.prob_break)
                ELSE Less(Rand(R, i), attrs.prob_recover),
                R, i + 1, n, attrs)

\* C3: the working/broken state of a Gap filter persists across apply calls.
\* An apply call starts the chain from the state the object is in, which is the
\* state the previous call left, and leaves the state the chain ends in; a step
\* that turns a broken sensor into a working one is a set_params call, or an
\* apply call with a positive recovery probability.
C3_GapStatePersists ==
  [][/\ (last'.op = "apply" /\ last'.err = "" /\ last'.f = "gap") =>
          inst'["gap"].attrs.working =
            ChainEnd(inst["gap"].attrs.working, last'.rng0, 1,
                     Len(last'.data0.elems), inst["gap"].attrs)
     /\ (~inst["gap"].attrs.working /\ inst'["gap"].attrs.working) =>
          \/ last'.op = "set_params"
          \/ last'.op = "apply" /\ Less(Num(0), inst["gap"].attrs.prob_recover)
    ]_vars

\* An apply call started from the broken state the previous apply call left,
\* with no chance to recover, and overwrote every element.
C3_Witness ==
  /\ Applied("Gap")
  /\ ~last.inst0["gap"].attrs.working
  /\ last.inst0["gap"].attrs.prob_recover = Num(0)
  /\ ~inst["gap"].attrs.working
  /\ Len(last.data.elems) = MaxLen
  /\ \A i \in 1 .. MaxLen : last.data.elems[i] = last.inst0["gap"].attrs.missing_value

\* C4: Gap with prob_break = 0 and prob_recover = 1 overwrites no element, and
\* Gap with prob_break = 1 and prob_recover = 0 overwrites every element, the
\* first one included, with the missing value, whatever the draws are.
C4_GapBoundary ==
  Applied("Gap") =>
    LET a == last.inst0["gap"].attrs
    IN  /\ (a.prob_break = Num(0) /\ a.prob_recover = Num(1)) =>
             last.data = last.data0
        /\ (a.prob_break = Num(1) /\ a.prob_recover = Num(0)) =>
             \A i \in 1 .. Len(last.data.elems) :
               last.data.elems[i] = Store(last.data0.dtype, a.missing_value).v

\* Gap(1, 0) has overwritten all of a tensor of the full length, starting
\* from the working state, on draws that include 0.5.
C4_Witness ==
  /\ Applied("Gap")
  /\ last.inst0["gap"].attrs.working
  /\ last.inst0["gap"].attrs.prob_break = Num(1)
  /\ last.inst0["gap"].attrs.prob_recover = Num(0)
  /\ Len(last.data.elems) = MaxLen
  /\ Rand(last.rng0, 1) = Rat(1, 2)
  /\ \A i \in 1 .. MaxLen : IsNaN(last.data.elems[i])

\* C5: Missing with probability 0 leaves every element unchanged and Missing
\* with probability 1 sets every element to NaN, whatever the draws are.
C5_MissingBoundary ==
  Applied("Missing") =>
    LET p == last.inst0["missing"].attrs.probability
    IN  /\ p = Num(0) => last.data = last.data0
        /\ p = Num(1) =>
             \A i \in 1 .. Len(last.data.elems) : IsNaN(last.data.elems[i])

---------------------------------------------------------------------------
(* A node with one ApplyWithProbability filter over Missing or Gap *)

\* The mappings of the ApplyWithProbability filter: the inner filter, the
\* probability and the inner filter's own parameters.
AwpMappings ==
  {[ftr |-> "missing", awp_prob |-> p, prob |-> q] : p \in Probs, q \in Probs}
    \cup
  {[ftr |-> "gap", awp_prob |-> p, prob_break |-> Rat(1, 2), prob_recover |-> pr,
    missing_value |-> NaN] : p \in Probs, pr \in {Num(0), Rat(1, 2)}}

AttachAwp == filters = << >> /\ addfilter("awp")

ResolveAwp == \E m \in AwpMappings : SetParamsCall("awp", m)

ApplyAwp ==
  \E T \in Tensors : \E R \in Sources : ApplyCall("awp", T, R)

NextAwp == AttachAwp \/ ResolveAwp \/ ApplyAwp

SpecAwp == Init /\ [][NextAwp]_vars

\* The decision of an ApplyWithProbability.apply call: its first draw is below
\* the probability.
Decision(c) == Less(Rand(c.rng0, 1), c.inst0[c.f].attrs.probability)

\* C8: ApplyWithProbability.apply takes exactly one draw to decide. When the
\* decision is false it takes no further draw, leaves the data and the inner
\* filter as they were and returns; when it is true the call leaves what the
\* inner filter's apply leaves on the same data with the same source, that
\* source being one draw further: an inner Missing masks element i on the
\* draw i + 1 of the call.
C8_ApplyWithProbability ==
  (last.op = "apply" /\ last.f = "awp") =>
    LET a == last.inst0["awp"].attrs
        n == Len(last.data0.elems)
        r == Apply(a.ftr, last.data0, Advance(last.rng0, 1), last.inst0)
    IN  /\ ~Decision(last) =>
             /\ last.rng = Advance(last.rng0, 1)
             /\ last.data = last.data0
             /\ inst = last.inst0
             /\ last.err = ""
        /\ Decision(last) =>
             /\ last.data = r.data /\ last.rng = r.rng
             /\ inst = r.inst /\ last.err = r.err
             /\ last.err = "" => last.rng.pos = last.rng0.pos + 1 + n
        /\ (Decision(last) /\ a.ftr = "missing" /\ last.err = "") =>
             \A i \in 1 .. n :
               IsNaN(last.data.elems[i]) <=>
                 LessEq(Rand(last.rng0, i + 1), last.inst0["missing"].attrs.probability)

\* The decision was true on the draw 0.0 and the inner Missing, on the draws
\* after it, masked the first element of a full-length tensor and kept the last.
C8_Witness ==
  /\ last.op = "apply" /\ last.f = "awp" /\ last.err = ""
  /\ Decision(last)
  /\ last.inst0["awp"].attrs.ftr = "missing"
  /\ last.inst0["missing"].attrs.probability = Num(0)
  /\ Len(last.data.elems) = MaxLen
  /\ IsNaN(last.data.elems[1])
  /\ ~IsNaN(last.data.elems[MaxLen])
  /\ last.rng.pos = last.rng0.pos + 1 + MaxLen

---------------------------------------------------------------------------
(* A node with one combinator filter, or one Difference filter *)

\* np.full(shape, v)
Full(dtype, n, v) == Tensor(dtype, [i \in 1 .. n |-> v])

BinaryTensors ==
  {Full(dtype, MaxLen, Num(5)) : dtype \in {"int", "float"}}
    \cup {Arange(dtype, MaxLen) : dtype \in {"int", "float"}}

\* The sources whose first MaxLen draws are every sequence of MaxLen draws.
BinarySources == {RandomState(s) : s \in 0 .. (Pow(Len(Draws), MaxLen) - 1)}

\* The values of the Constant child.
Values == {Num(2), Num(0), Num(0 - 3)}

\* The mappings of a combinator: its two children, the value of a Constant
\* child and the probability of a Missing child.
BinaryMappings ==
  {[filter_a |-> "const", filter_b |-> "ident", value |-> v] : v \in Values}
    \cup
  {[filter_a |-> "ident", filter_b |-> "const", value |-> v] : v \in Values}
    \cup
  {[filter_a |-> "missing", filter_b |-> "const", value |-> v, prob |-> Rat(1, 4)] :
     v \in Values}
    \cup
  {[filter_a |-> "missing", filter_b |-> "ident", prob |-> Rat(1, 4)],
   [filter_a |-> "ident", filter_b |-> "missing", prob |-> Rat(1, 4)]}

\* The mappings of a Difference filter: the filter it wraps and that filter's
\* parameters.
DifferenceMappings ==
  {[filter_a |-> "const", value |-> v] : v \in Values}
    \cup
  {[filter_a |-> "missing", prob |-> Rat(1, 4)], [filter_a |-> "ident"]}

AttachBinary == \E f \in BinaryKinds \cup {"diff"} : filters = << >> /\ addfilter(f)

ResolveBinary ==
  \E f \in Range(filters) \cap BinaryKinds : \E m \in BinaryMappings :
    SetParamsCall(f, m)

\* set_params of the Difference filter, with a fresh mapping or with the
\* mapping the previous set_params call was given and has written to.
ResolveDifference ==
  \E m \in DifferenceMappings \cup {params} :
    /\ m # << >>
    /\ SetParamsCall("diff", m)

ApplyBinary ==
  \E f \in Range(filters) : \E T \in BinaryTensors : \E R \in BinarySources :
    ApplyCall(f, T, R)

NextBinary == AttachBinary \/ ResolveBinary \/ ResolveDifference \/ ApplyBinary

SpecBinary == Init /\ [][NextBinary]_vars

\* What the children of the combinator of call c leave when each is applied to
\* the tensor the call was given: filter_a first, filter_b with the source and
\* the objects filter_a left.
ChildA(c) ==
  Apply(c.inst0[c.f].attrs.filter_a, c.data0, c.rng0, c.inst0)
ChildB(c) ==
  Apply(c.inst0[c.f].attrs.filter_b, c.data0, ChildA(c).rng, ChildA(c).inst)

BinaryReturned ==
  /\ last.op = "apply"
  /\ last.f \in BinaryKinds
  /\ last.err = ""

\* Whether the combinator of the last call has the children a and b, the
\* Constant one with the value v.
Children(a, b, v) ==
  /\ last.inst0[last.f].attrs.filter_a = a
  /\ last.inst0[last.f].attrs.filter_b = b
  /\ last.inst0["const"].attrs.value = v

AllEqual(T, v) == \A i \in 1 .. Len(T.elems) : T.elems[i] = v

\* C6 as stated: after a combinator's apply, T[i] = op(A(T)[i], B(T)[i]) at
\* every index, A and B each applied to a private copy of T.
C6_CombinatorAsStated ==
  BinaryReturned =>
    \A i \in 1 .. Len(last.data.elems) :
      last.data.elems[i] =
        Operation(last.f, ChildA(last).data.elems[i], ChildB(last).data.elems[i],
                  last.data0.dtype).v

\* C6, amended: A and B are each applied to the tensor as the call received
\* it, and T[i] is op(A(T)[i], B(T)[i]) converted to the element type of T (on
\* an integer tensor a fractional result is cut toward zero); the source is
\* left as B left it. Addition(Constant(2), Identity) on an all-5 tensor
\* gives all 7, Min(Identity, Constant(2)) all 2, Max(Identity, Constant(2))
\* all 5.
C6_Combinator ==
  BinaryReturned =>
    /\ \A i \in 1 .. Len(last.data.elems) :
         last.data.elems[i] =
           Store(last.data0.dtype,
                 Operation(last.f, ChildA(last).data.elems[i],
                           ChildB(last).data.elems[i], last.data0.dtype).v).v
    /\ last.rng = ChildB(last).rng
    /\ AllEqual(last.data0, Num(5)) =>
         /\ (last.f = "Addition" /\ Children("const", "ident", Num(2))) =>
              AllEqual(last.data, Num(7))
         /\ (last.f = "Min" /\ Children("ident", "const", Num(2))) =>
              AllEqual(last.data, Num(2))
         /\ (last.f = "Max" /\ Children("ident", "const", Num(2))) =>
              AllEqual(last.data, Num(5))

\* Division(Constant(2), Identity) on an all-5 integer tensor: 2 / 5 is stored
\* as 0 in every element.
C6_Witness ==
  /\ BinaryReturned
  /\ last.f = "Division"
  /\ Children("const", "ident", Num(2))
  /\ last.data0 = Full("int", MaxLen, Num(5))
  /\ AllEqual(last.data, Num(0))

\* C7: Difference(F) leaves the tensor, the source and the exception that
\* Subtraction(F, Identity) leaves on the same tensor, source and F; when the
\* call returns each element is F(T)[i] - T[i] in the element type of T.
C7_Difference ==
  (last.op = "apply" /\ last.f = "diff") =>
    LET F == last.params0.filter_a
        I == [last.inst0 EXCEPT !["Subtraction"].attrs =
                [filter_a |-> F, filter_b |-> "ident"]]
        sub == Apply("Subtraction", last.data0, last.rng0, I)
        r == Apply(F, last.data0, last.rng0, last.inst0)
    IN  /\ last.data = sub.data
        /\ last.rng = sub.rng
        /\ last.err = sub.err
        /\ last.err = "" =>
             /\ last.rng = r.rng
             /\ \A i \in 1 .. Len(last.data.elems) :
                  last.data.elems[i] =
                    IF IsNaN(r.data.elems[i]) THEN NaN
                    ELSE RatSub(r.data.elems[i], last.data0.elems[i])

\* Difference(Missing) on a float tensor of the full length: the masked first
\* element is NaN and the last, which Missing kept, is 0.
C7_Witness ==
  /\ last.op = "apply" /\ last.f = "diff" /\ last.err = ""
  /\ last.params0.filter_a = "missing"
  /\ Len(last.data.elems) = MaxLen
  /\ IsNaN(last.data.elems[1])
  /\ last.data.elems[MaxLen] = Num(0)
  /\ last.rng.pos = last.rng0.pos + MaxLen

---------------------------------------------------------------------------
(* set_params with mappings that lack keys *)

Restrict(m, S) == [k \in S |-> m[k]]

\* Mappings with every key: the child of the composites is Missing or Gap,
\* the second child of a combinator is Constant.
FullMappings ==
  {[prob |-> Rat(1, 2), prob_break |-> Rat(1, 2), prob_recover |-> Rat(1, 2),
    missing_value |-> NaN, value |-> Num(2), ftr |-> c, awp_prob |-> Num(1),
    filter_a |-> c, filter_b |-> "const", dtype |-> "float"] :
     c \in {"missing", "gap"}}

\* The mappings a caller passes: a full one with up to two keys left out.
KeyMappings ==
  {Restrict(m, S) : m \in FullMappings,
                    S \in {X \in SUBSET Keys : Cardinality(Keys \ X) <= 2}}

\* One filter of every class that looks up keys; Addition stands for the
\* combinators, whose set_params is the one of BinaryFilter.
KeyFilters ==
  {"missing", "gap", "const", "ident", "awp", "madt", "diff", "Addition"}
    \cup ImageFilters

AttachKeys == \E f \in KeyFilters : filters = << >> /\ addfilter(f)

ResolveKeys ==
  \E f \in Range(filters) :
  \E m \in IF f \in ImageFilters THEN ImageKeyMappings(f) ELSE KeyMappings :
    SetParamsCall(f, m)

NextKeys == AttachKeys \/ ResolveKeys

SpecKeys == Init /\ [][NextKeys]_vars

\* The keys of its constructor under which filter f looks up a child filter.
ChildKeys(o) ==
  CASE o.kind = "ApplyWithProbability" -> {o.ids[1]}
    [] o.kind = "ModifyAsDataType" -> {o.ids[2]}
    [] o.kind = "Difference" -> {o.ids[1]}
    [] o.kind \in BinaryKinds -> {o.ids[1], o.ids[2]}
    [] OTHER -> {}

\* The keys filter f needs of the mapping m: the keys it was constructed with
\* and the keys the child filters need that m gives it.
RECURSIVE Needs(_, _)
Needs(f, m) ==
  Range(Objects[f].ids) \cup
    UNION {Needs(m[k], m) : k \in ChildKeys(Objects[f]) \cap DOMAIN m}

SetParamsDone == last.op = "set_params"

\* C10 as stated: set_params with a mapping that lacks a key the filter or a
\* nested child needs fails with MissingParameterError.
C10_MissingParameterError ==
  (SetParamsDone /\ ~(Needs(last.f, last.params0) \subseteq DOMAIN last.params0)) =>
    last.err = "MissingParameterError"

\* C10, amended: set_params with a mapping that lacks a key the filter or a
\* nested child needs fails with the KeyError of the mapping lookup, and with a
\* mapping that has them all it returns.
C10_KeyError ==
  SetParamsDone =>
    IF Needs(last.f, last.params0) \subseteq DOMAIN last.params0
    THEN last.err = ""
    ELSE last.err = "KeyError"

\* set_params of ApplyWithProbability failed on the key of its Missing child,
\* after it had assigned its own attributes.
C10_Witness ==
  /\ SetParamsDone /\ last.f = "awp"
  /\ last.err = "KeyError"
  /\ {"ftr", "awp_prob"} \subseteq DOMAIN last.params0
  /\ last.params0.ftr = "missing"
  /\ "prob" \notin DOMAIN last.params0
  /\ DOMAIN inst["awp"].attrs = {"ftr", "probability"}
  /\ "probability" \notin DOMAIN inst["missing"].attrs

---------------------------------------------------------------------------
(* A node with several filters *)

\* The filters attached to the node: two of filters.py and the two of the
\* examples.
NodeFilters == {"missing", "Addition", "filter.Missing", "filter.GaussianNoise"}

\* The mapping of the node's filters: Addition adds the Constant 2 to the data.
NodeMappings ==
  {[prob |-> Rat(1, 4), prob_break |-> Rat(1, 2), prob_recover |-> Rat(1, 2),
    missing_value |-> Num(0 - 1), value |-> Num(2),
    filter_a |-> "const", filter_b |-> "ident"]}

\* The index tuples a caller passes: the default, and the position of the
\* node's data in a series.
IndexTuples == {<< >>, <<0>>}

AttachNode == \E f \in NodeFilters \ Range(filters) : addfilter(f)

ResolveNode ==
  \E f \in Range(filters) : \E m \in NodeMappings :
    ~TakesIndexTuple(inst[f]) /\ SetParamsCall(f, m)

ProcessNode ==
  \E T \in Tensors : \E index_tuple \in IndexTuples : \E G \in Sources :
    ProcessCall(T, index_tuple, G)

NextNode == AttachNode \/ ResolveNode \/ ProcessNode

SpecNode == Init /\ [][NextNode]_vars

\* The filters of the node are those of filters.py and set_params has given
\* each of them every attribute its apply reads.
AllResolved ==
  \A f \in Range(filters) : ~TakesIndexTuple(inst[f]) /\ Ready(f, inst)

\* C9 as stated: Array.process applies the filters of the node in the order
\* they were added, each once, the first to the data of the call and each
\* later one to the data the one before it left, and leaves what the last one
\* left (a filter whose apply raises ends the call); addfilter appends, and no
\* other call changes the list of filters.
C9_ProcessOrder ==
  [][/\ \/ filters' = filters
        \/ \E f \in DOMAIN Objects : filters' = Append(filters, f) /\ last'.op = "addfilter"
     /\ (last'.op = "process" /\ AllResolved) =>
          LET applied == NodeProcess(filters, last'.data0, last'.rng0, inst)
          IN  /\ last'.err = applied.err
              /\ last'.data = applied.data
              /\ last'.log = applied.log
    ]_vars

\* A process call on a node with Addition and Missing, both resolved, raised
\* TypeError at Addition and left the data as it was: the sums were never
\* formed and Missing was never called.
TypeErrorAtFirst ==
  /\ last.op = "process"
  /\ last.err = "TypeError"
  /\ filters = <<"Addition", "missing">>
  /\ AllResolved
  /\ Len(last.log) = 1
  /\ last.data0 = Arange("float", MaxLen)
  /\ last.data = last.data0
  /\ last.rng = last.rng0
  /\ NodeProcess(filters, last.data0, last.rng0, inst).data.elems[MaxLen]
       = Num(MaxLen + 2)

\* A process call ran the two filters of the examples in the order added:
\* Missing was handed the data with the noise on it.
ValueFiltersInOrder ==
  /\ last.op = "process"
  /\ last.err = ""
  /\ filters = <<"filter.GaussianNoise", "filter.Missing">>
  /\ Len(last.log) = 2
  /\ last.log[1].seen = last.data0
  /\ last.log[1].left # last.data0
  /\ last.log[2].seen = last.log[1].left
  /\ last.data = last.log[2].left
  /\ \E i \in 1 .. Len(last.data.elems) : IsNaN(last.data.elems[i])

---------------------------------------------------------------------------
(* Generating errors twice with the same seed *)

\* The filter of the node: a leaf, a combinator, or ApplyWithProbability over
\* the Gap filter.
GenerateFilters == {"missing", "gap", "Addition", "awp"}

\* The mappings of the node's filters; a broken sensor recovers with
\* probability 1/2 or never.
GenerateMappings ==
  {[prob |-> Rat(1, 4), prob_break |-> Rat(1, 2), prob_recover |-> pr,
    missing_value |-> Num(0 - 1), value |-> Num(2),
    filter_a |-> "const", filter_b |-> "ident",
    ftr |-> "gap", awp_prob |-> Rat(1, 2)] : pr \in {Num(0), Rat(1, 2)}}

\* The node gets its filter before the caller starts to compare runs.
AttachGenerate ==
  \E f \in GenerateFilters : filters = << >> /\ ref = NoCall /\ addfilter(f)

\* The caller generates errors from some data, mapping and seed.
Generate ==
  \E T \in Tensors : \E m \in GenerateMappings : \E R \in Sources :
    ref = NoCall /\ GenerateErrorCall(T, m, R)

RememberGenerate == Remember("generate_error")

\* The caller generates errors again from the data and the mapping of the
\* remembered call, with a new source of the same seed.
Regenerate ==
  /\ ref # NoCall
  /\ GenerateErrorCall(ref.data0, ref.params0, RandomState(ref.rng0.seed))

NextGenerate == AttachGenerate \/ Generate \/ RememberGenerate \/ Regenerate

SpecGenerate == Init /\ [][NextGenerate]_vars

\* C1: generating errors twice from the same data with the same mapping and
\* two sources of the same seed gives the same output, element by element (NaN
\* equal to NaN), and the same exception if any, whatever the node generated
\* before the first of the two.
C1_Determinism ==
  (/\ ref.op = "generate_error" /\ last.op = "generate_error"
   /\ last.data0 = ref.data0
   /\ last.params0 = ref.params0
   /\ last.rng0 = RandomState(ref.rng0.seed)) =>
    /\ last.data = ref.data
    /\ last.err = ref.err
    /\ last.rng = ref.rng

\* Two runs of a node with a Gap filter that never recovers: the sensor was
\* broken when the first run began, and both runs left the same output with
\* an element kept and an element overwritten.
C1_Witness ==
  /\ ref.op = "generate_error" /\ last.op = "generate_error"
  /\ filters = <<"gap">>
  /\ last.err = ""
  /\ last.params0.prob_recover = Num(0)
  /\ ~ref.inst0["gap"].attrs.working
  /\ Len(last.data.elems) = MaxLen
  /\ last.data = ref.data
  /\ \E i, j \in 1 .. MaxLen :
       /\ last.data.elems[i] = Num(0 - 1)
       /\ last.data.elems[j] # Num(0 - 1)

---------------------------------------------------------------------------
(* Two apply calls with the same arguments on one filter *)

\* The filters the two calls are made on: a leaf, Gap, and the composites
\* that delegate to a Gap child.
TwoFilters == {"missing", "gap", "awp", "Addition", "diff"}

\* The mappings of the composites: the inner filters are the Gap filter, once
\* or as both children of a BinaryFilter.
TwoMappings(f) ==
  IF f \in {"missing", "gap"} THEN LeafMappings(f)
  ELSE {[ftr |-> "gap", awp_prob |-> Num(1), filter_a |-> "gap",
         filter_b |-> b, prob_break |-> Rat(1, 2), prob_recover |-> pr,
         missing_value |-> Num(0 - 1)] :
          b \in {"gap", "ident"}, pr \in {Num(0), Rat(1, 2)}}

AttachTwo == \E f \in TwoFilters : filters = << >> /\ addfilter(f)

ResolveFirst ==
  \E f \in Range(filters) : \E m \in TwoMappings(f) :
    ref = NoCall /\ SetParamsCall(f, m)

ApplyFirst ==
  \E f \in Range(filters) : \E T \in Tensors : \E R \in Sources :
    ref = NoCall /\ ApplyCall(f, T, R)

RememberApply == Remember("apply")

\* set_params again with the mapping of the remembered call.
ResolveAgain == ref # NoCall /\ SetParamsCall(ref.f, ref.params0)

\* apply again with the tensor and the source state of the remembered call.
ApplyAgain == ref # NoCall /\ ApplyCall(ref.f, ref.data0, ref.rng0)

NextTwo ==
  AttachTwo \/ ResolveFirst \/ ApplyFirst \/ RememberApply \/ ResolveAgain
    \/ ApplyAgain

SpecTwo == Init /\ [][NextTwo]_vars

\* The attributes of o that hold the filters its apply delegates to:
\* self.filter_a and self.filter_b, or self.ftr.
Delegates(o) ==
  IF o.kind = "Difference" THEN {"ftr"} \cap DOMAIN o.attrs
  ELSE Range(ChildAttrs(o.kind)) \cap DOMAIN o.attrs

\* The filter objects an apply call on f can reach: f and, through the
\* delegating attributes, the filters below it.
RECURSIVE Reached(_, _)
Reached(f, I) ==
  {f} \cup UNION {Reached(I[f].attrs[c], I) : c \in Delegates(I[f])}

\* The parameters set_params resolved for the filter of call c and for the
\* filters below it.
Resolved(c) ==
  [x \in Reached(c.f, c.inst0) |->
     [a \in Range(AttrNames(c.inst0[x].kind)) \cap DOMAIN c.inst0[x].attrs |->
        c.inst0[x].attrs[a]]]

\* self.working, on entry of call c, of every Gap filter the call can reach.
Working(c) ==
  [x \in {y \in Reached(c.f, c.inst0) : c.inst0[y].kind = "Gap"} |->
     c.inst0[x].attrs.working]

SameArguments ==
  /\ ref.op = "apply" /\ last.op = "apply"
  /\ last.f = ref.f
  /\ last.data0 = ref.data0
  /\ last.rng0 = ref.rng0
  /\ Resolved(last) = Resolved(ref)

\* C2 as stated: two apply calls on a filter with equal data, equal state of
\* the source and equal resolved parameters leave equal data and an equal
\* state of the source, whatever calls came before.
C2_PureAsStated ==
  SameArguments => (last.data = ref.data /\ last.rng = ref.rng)

\* C2, amended: two apply calls on a filter with equal data, equal state of
\* the source, equal resolved parameters and the same working or broken state
\* on entry of every Gap filter the call reaches (the filter itself, or one a
\* composite delegates to) leave equal data, an equal state of the source and
\* the same exception.
C2_PureGivenState ==
  (SameArguments /\ Working(last) = Working(ref)) =>
    /\ last.data = ref.data
    /\ last.rng = ref.rng
    /\ last.err = ref.err

\* Two apply calls on a composite over a Gap child that both found the sensor
\* broken, after different calls before them, and left the same tensor.
C2_Witness ==
  /\ SameArguments
  /\ last.inst0[last.f].kind \in {"ApplyWithProbability", "Addition"}
  /\ last.err = ""
  /\ Working(last) = ("gap" :> FALSE)
  /\ Working(ref) = ("gap" :> FALSE)
  /\ Len(last.data.elems) = MaxLen
  /\ last.data = ref.data
  /\ last.data # last.data0

\* Two apply calls on a composite with equal arguments, one finding its Gap
\* child working and the other finding it broken, that left different tensors.
C2_CompositeDiffers ==
  /\ SameArguments
  /\ last.inst0[last.f].kind \in {"ApplyWithProbability", "Addition", "Difference"}
  /\ Working(last) # Working(ref)
  /\ last.data # ref.data

---------------------------------------------------------------------------
(* A node with a GaussianNoiseTimeDependent filter *)

\* The mappings of the time-dependent noise: a growing mean, and a deviation
\* that grows or shrinks with time.
TimeMappings ==
  {[mean |-> Num(0), mean_increase |-> mi, std |-> sd, std_increase |-> si] :
     mi \in {Num(1)}, sd \in {Num(0), Num(1)}, si \in {Num(0 - 1), Num(1)}}

\* The named dimensions a caller passes: none outside a Series, the position
\* along the time axis inside one, or another dimension only.
NamedDims ==
  {<< >>, [time |-> Num(0)], [time |-> Num(2)], [index |-> Num(1)]}

AttachTime == filters = << >> /\ addfilter("gntd")

ResolveTime == \E m \in TimeMappings : SetParamsCall("gntd", m)

ApplyTime ==
  \E T \in Tensors : \E R \in Sources : \E D \in NamedDims :
    ApplyInCall("gntd", T, R, D)

NextTime == AttachTime \/ ResolveTime \/ ApplyTime

SpecTime == Init /\ [][NextTime]_vars

\* An apply call of the time-dependent noise without a time dimension.
AppliedWithoutTime ==
  /\ last.op = "apply"
  /\ last.inst0[last.f].kind = "GaussianNoiseTimeDependent"
  /\ "time" \notin DOMAIN last.dims

\* C11 as stated: GaussianNoiseTimeDependent applied with named dimensions
\* that hold no time fails with MissingContextError, leaves the data unchanged
\* and consumes no random draw.
C11_MissingContextError ==
  AppliedWithoutTime =>
    /\ last.err = "MissingContextError"
    /\ last.data = last.data0
    /\ last.rng = last.rng0

\* C11: GaussianNoiseTimeDependent applied with named dimensions that hold no
\* time fails with the KeyError of the lookup named_dims["time"], leaves the
\* data unchanged and consumes no random draw.
C11_KeyError ==
  AppliedWithoutTime =>
    /\ last.err = "KeyError"
    /\ last.data = last.data0
    /\ last.rng = last.rng0

\* The filter, resolved to a noise that would change the data, is applied to
\* a float tensor with another dimension only, and fails.
C11_Witness ==
  /\ AppliedWithoutTime
  /\ last.dims # << >>
  /\ last.err = "KeyError"
  /\ last.data0.dtype = "float"
  /\ last.inst0[last.f].attrs.std = Num(1)
  /\ Len(last.data0.elems) = MaxLen

---------------------------------------------------------------------------
(* run.py: the commands and their tokens *)

\* A command line is a sequence of pieces whose concatenation is the line: a
\* stretch of text without brackets, a whole token, or the opening or closing
\* part of a token.
Text(t) == [kind |-> "text", sig |-> "", num |-> "", ext |-> "", text |-> t]

\* "[" + token_signature + "_" + pr[0] + "." + pr[1] + "]"
TokenText(sig, num, ext) == "[" \o sig \o "_" \o num \o "." \o ext \o "]"

Token(sig, num, ext) ==
  [kind |-> "token", sig |-> sig, num |-> num, ext |-> ext,
   text |-> TokenText(sig, num, ext)]

\* '[IN_' + str(i+1) + ']'
InText(num) == "[IN_" \o num \o "]"

In(num) == [kind |-> "in", sig |-> "IN", num |-> num, ext |-> "", text |-> InText(num)]

\* "[MID_1" and ".npy]": a token cut in two.
Open(sig, num) ==
  [kind |-> "open", sig |-> sig, num |-> num, ext |-> "",
   text |-> "[" \o sig \o "_" \o num]

Close(ext) ==
  [kind |-> "close", sig |-> "", num |-> "", ext |-> ext, text |-> "." \o ext \o "]"]

\* Whether the regex of create_replacements matches at piece k of the command:
\* a whole token of the signature, or its two parts next to each other.
MatchAt(command, k, sig) ==
  \/ command[k].kind = "token" /\ command[k].sig = sig
  \/ /\ command[k].kind = "open" /\ command[k].sig = sig
     /\ k < Len(command)
     /\ command[k + 1].kind = "close"

\* re.findall(regex, command) from piece k on: the (number, extension) pairs of
\* the matches, in order.
RECURSIVE FindAll(_, _, _)
FindAll(command, k, sig) ==
  IF k > Len(command) THEN << >>
  ELSE IF ~MatchAt(command, k, sig) THEN FindAll(command, k + 1, sig)
  ELSE IF command[k].kind = "token"
  THEN <<[num |-> command[k].num, ext |-> command[k].ext]>>
       \o FindAll(command, k + 1, sig)
  ELSE <<[num |-> command[k].num, ext |-> command[k + 1].ext]>>
       \o FindAll(command, k + 2, sig)

\* unique_filename(folder, prefix, extension) when the clock reads now; the
\* folder of run.py is written src.
unique_filename(folder, prefix, extension, now) ==
  "src/" \o folder \o "/" \o prefix \o "_" \o ToString(now) \o "." \o extension

\* replacements[key] = value of a dict kept as the sequence of its items in
\* insertion order.
SetItem(items, key, value) ==
  IF \E n \in 1 .. Len(items) : items[n].key = key
  THEN [n \in 1 .. Len(items) |->
          IF items[n].key = key THEN [key |-> key, value |-> value] ELSE items[n]]
  ELSE Append(items, [key |-> key, value |-> value])

\* The loop of create_replacements over the matches from the m-th on; the
\* clock reads now at the first call of unique_filename and tick more at each
\* later one.
RECURSIVE ReplacementsFrom(_, _, _, _, _, _)
ReplacementsFrom(matches, m, sig, items, now, tick) ==
  IF m > Len(matches) THEN items
  ELSE ReplacementsFrom(matches, m + 1, sig,
         SetItem(items, TokenText(sig, matches[m].num, matches[m].ext),
                 unique_filename("tmp", sig \o "-" \o matches[m].num,
                                 matches[m].ext, now + (m - 1) * tick)),
         now, tick)

create_replacements(command, token_signature, now, tick) ==
  ReplacementsFrom(FindAll(command, 1, token_signature), 1, token_signature,
                   << >>, now, tick)

\* command.replace(key, value) from piece k on.
RECURSIVE Replace(_, _, _, _)
Replace(command, k, key, value) ==
  IF k > Len(command) THEN << >>
  ELSE IF command[k].kind \in {"token", "in"} /\ command[k].text = key
  THEN <<Text(value)>> \o Replace(command, k + 1, key, value)
  ELSE IF /\ command[k].kind = "open"
          /\ k < Len(command)
          /\ command[k + 1].kind = "close"
          /\ command[k].text \o command[k + 1].text = key
  THEN <<Text(value)>> \o Replace(command, k + 2, key, value)
  ELSE <<command[k]>> \o Replace(command, k + 1, key, value)

\* Mutant: replace(key, value, 1), which replaces the first occurrence only.
RECURSIVE DoReplacementsOnce(_, _, _)
DoReplacementsOnce(command, items, n) ==
  IF n > Len(items) THEN command
  ELSE LET hits == {k \in 1 .. Len(command) : command[k].text = items[n].key}
       IN  DoReplacementsOnce(
             IF hits = {} THEN command
             ELSE [command EXCEPT ![SetMin(hits)] = Text(items[n].value)],
             items, n + 1)

\* do_replacements(command, replacements) from the n-th item on.
RECURSIVE do_replacements(_, _, _)
do_replacements(command, items, n) ==
  IF n > Len(items) THEN command
  ELSE do_replacements(Replace(command, 1, items[n].key, items[n].value),
                       items, n + 1)

\* The tokens of the commands of the model in the order sorted() gives their
\* texts.
SortedKeys ==
  <<TokenText("MID", "1", "npy"), TokenText("MID", "1", "txt"),
    TokenText("MID", "2", "txt"), TokenText("OUT", "1", "json"),
    TokenText("OUT", "1", "npy")>>

\* [value for key, value in sorted(replacements.items())]
RECURSIVE SortedValues(_, _)
SortedValues(items, k) ==
  IF k > Len(SortedKeys) THEN << >>
  ELSE LET here == {n \in 1 .. Len(items) : items[n].key = SortedKeys[k]}
       IN  (IF here = {} THEN << >> ELSE <<items[CHOOSE n \in here : TRUE].value>>)
           \o SortedValues(items, k + 1)

\* run_commands: the two commands as they are run, and the lists returned.
run_commands(run_model_command, run_analyze_command, in_file_names, now, tick) ==
  LET in_replacements ==
        [i \in 1 .. Len(in_file_names) |->
           [key |-> InText(ToString(i)), value |-> in_file_names[i]]]
      both == run_model_command \o run_analyze_command
      mid_replacements == create_replacements(both, "MID", now, tick)
      out_replacements ==
        create_replacements(both, "OUT",
                            now + Len(FindAll(both, 1, "MID")) * tick, tick)
      run(command) ==
        do_replacements(
          do_replacements(do_replacements(command, in_replacements, 1),
                          mid_replacements, 1),
          out_replacements, 1)
  IN  [model |-> run(run_model_command),
       analyze |-> run(run_analyze_command),
       mid |-> mid_replacements,
       out |-> out_replacements,
       mid_file_names |-> SortedValues(mid_replacements, 1),
       out_file_names |-> SortedValues(out_replacements, 1),
       calls |-> Len(FindAll(both, 1, "MID")) + Len(FindAll(both, 1, "OUT"))]

---------------------------------------------------------------------------
(* run.py: main, the sweep over the (std, prob) grid *)

\* What TupleSeries.process has once a child's process call has left r: the
\* element joins those done so far.
TupleStep(st, r) ==
  [data |-> Append(st.data, r.data), rng |-> r.rng, inst |-> r.inst, err |-> r.err]

\* TupleSeries.process from the i-th child on: child i, an Array node,
\* processes element i of the tuple; st is [data, rng, inst, err], data the
\* elements done so far and rng the source the filters of the examples draw
\* from.
RECURSIVE TupleSeriesFrom(_, _, _, _)
TupleSeriesFrom(nodes, i, data, st) ==
  IF i > Len(nodes) \/ st.err # "" THEN st
  ELSE TupleSeriesFrom(nodes, i + 1, data,
                       TupleStep(st, Process(nodes[i], data[i], << >>, st.rng, st.inst)))

\* Mutant: every child applies the filters of the first and of the last child.
TupleSeriesShared(nodes, data, R, I) ==
  TupleSeriesFrom([i \in 1 .. Len(nodes) |-> nodes[1] \o nodes[Len(nodes)]], 1,
                  data, [data |-> << >>, rng |-> R, inst |-> I, err |-> ""])

\* TupleSeries.process(data): nodes are the filter lists of the children.
TupleSeries(nodes, data, R, I) ==
  TupleSeriesFrom(nodes, 1, data, [data |-> << >>, rng |-> R, inst |-> I, err |-> ""])

\* copy.Copy(child).process(data) around a TupleSeries: the child processes a
\* copy of the data, which the call returns, and the data of the caller stay
\* as they were.
Copy(nodes, data, R, I) ==
  [original_data |-> data] @@ TupleSeries(nodes, data, R, I)

\* The filters save_errorified constructs, GaussianNoise(0, std) and
\* Missing(prob), holding their values.
ErrorFilters(std, prob) ==
  [f \in {"noise", "missing"} |->
     IF f = "noise"
     THEN ValueFilter("GaussianNoise", [mean |-> Num(0), std |-> std])
     ELSE ValueFilter("Missing", [probability |-> prob])]

\* error_generator_root.process(original_data) of save_errorified: a Copy
\* over the TupleSeries of x_node, which holds the two filters, and y_node,
\* which holds none. The call names the data and nothing else: no random
\* source is constructed in run.py and none is handed down, so the filters
\* draw from a source of their own, whose state G is not the driver's to set.
error_generator_root(std, prob, original_data, G) ==
  [passed |-> {"data"}]
  @@ Copy(<<<<"noise", "missing">>, << >>>>, original_data, G,
          ErrorFilters(std, prob))

\* save_errorified(std, prob): the tree is built anew, the root processes the
\* data, and the two outputs are saved under two new names.
save_errorified(std, prob, original_data, G, now, tick) ==
  [x_name |-> unique_filename("tmp", "x", "npy", now),
   y_name |-> unique_filename("tmp", "y", "npy", now + tick)]
  @@ error_generator_root(std, prob, original_data, G)

\* The commands of the commands file.
ModelCommand ==
  <<Text("python3 model.py < "), In("1"), Text(" > "), Token("MID", "1", "npy"),
    Text(" 2> "), Token("MID", "2", "txt")>>

AnalyzeCommand ==
  <<Text("python3 analyze.py < "), Token("MID", "1", "npy"), Text(" > "),
    Token("OUT", "1", "npy")>>

\* Mutant: the record names the parameters the other way round.
ResultRecordSwapped(std, prob, out_file_names) ==
  [params |-> [gaussian |-> prob, throwaway |-> std], files |-> out_file_names]

\* ({"gaussian" : std, "throwaway" : prob}, out_file_names)
ResultRecord(std, prob, out_file_names) ==
  [params |-> [gaussian |-> std, throwaway |-> prob], files |-> out_file_names]

\* The grids of the error parameter file, expanded.
StdGrids ==
  {<< >>, <<Num(1)>>, <<Num(0), Num(1)>>, <<Num(1), Num(1)>>,
   <<Num(0 - 1), Num(1)>>, <<Num(1), Num(0 - 1)>>}

ProbGrids == {<< >>, <<Rat(1, 2)>>, <<Num(0), Rat(1, 2)>>, <<Num(0), Num(0)>>}

\* The data set: the samples and their labels.
DataSets ==
  {<<x, Arange("int", Len(x.elems))>> :
     x \in {Arange("float", 1), Arange("float", MaxLen)}}

\* The states the source of the filters may be in when the root processes the
\* data: the stream of the first seed and that of the last.
SweepSources == {RandomState(s) : s \in {0, Cardinality(Seeds) - 1}}

\* main up to the loop: the data, the commands file and the grids are read.
\* The clock is as the environment left it.
ReadInput ==
  \E stds \in StdGrids : \E probs \in ProbGrids : \E data \in DataSets :
  \E tick \in {0, 1} :
    /\ driver.pc = "idle"
    /\ driver' = [pc |-> "loop", run |-> 1, std_vals |-> stds,
                  prob_missing_vals |-> probs, original_data |-> data,
                  run_model_command |-> ModelCommand,
                  run_analyze_command |-> AnalyzeCommand,
                  i |-> 1, j |-> 1, combined_file_names |-> << >>,
                  clock |-> 0, tick |-> tick,
                  saved |-> << >>, earlier |-> << >>, err |-> "",
                  log |-> << >>]
    /\ UNCHANGED <<inst, params, filters, last, ref, area>>

\* The loop has a point left to run.
InLoop ==
  /\ driver.pc = "loop"
  /\ driver.i <= Len(driver.std_vals)
  /\ driver.prob_missing_vals # << >>

\* The loops are over: main reads the analyzer files and combines them.
Combine ==
  /\ driver.pc = "loop"
  /\ ~InLoop
  /\ driver' = [driver EXCEPT !.pc = "done"]
  /\ UNCHANGED <<inst, params, filters, last, ref, area>>

\* run.py is started again with the same files.
RunAgain ==
  /\ driver.pc = "done"
  /\ driver.run = 1
  /\ driver' = [driver EXCEPT !.pc = "loop", !.run = 2, !.i = 1, !.j = 1,
                              !.combined_file_names = << >>, !.log = << >>,
                              !.saved = << >>, !.earlier = driver.saved]
  /\ UNCHANGED <<inst, params, filters, last, ref, area>>

---------------------------------------------------------------------------
(* A node with one filter that works on numbers or on strings *)

\* np.array of strings: the item width is the length of the longest string.
RECURSIVE MaxLength(_, _)
MaxLength(elems, i) ==
  IF i > Len(elems) THEN 0
  ELSE IF Len(elems[i]) > MaxLength(elems, i + 1) THEN Len(elems[i])
  ELSE MaxLength(elems, i + 1)

Strings(elems) == [dtype |-> "str", elems |-> elems, width |-> MaxLength(elems, 1)]

\* An array of the shape given, e.g. np.arange(1, 3).reshape((2, 1)).
Reshaped(T, shape) == [dtype |-> T.dtype, elems |-> T.elems, shape |-> shape]

StringTensors ==
  {Strings(<<<<"a", "b">>>>), Strings(<<<<"U+00DF">>>>),
   Strings(<<<<"U+00DF">>, <<"a", "b">>>>), Strings(<<<<"b", "a">>, <<"a">>>>)}

\* The arrays of numbers: np.arange in either dtype, a column and a row of
\* two elements, float arrays with a missing value and with fractions, and
\* np.full(n, 1).
NumberTensors ==
  Tensors
  \cup {Reshaped(Arange(dtype, 2), shape) :
          dtype \in {"int", "float"}, shape \in {<<2, 1>>, <<1, 2>>}}
  \cup {Tensor("float", <<NaN, Num(3)>>), Tensor("float", <<Num(0), Rat(3, 2)>>)}
  \cup {Full("int", MaxLen, Num(1))}

\* The tuples fed to the root: samples x and labels y.
Tuples == {<<x, y>> : x \in {Arange("float", n) : n \in 1 .. MaxLen},
                      y \in {Arange("float", 1), Arange("int", MaxLen)}}

\* An image of one channel, two rows of MaxLen pixels: 1, 2, ... row by row.
Grids == {Reshaped(Arange(dtype, 2 * MaxLen), <<2, MaxLen>>) : dtype \in {"int", "float"}}

\* A recording: samples from 0 to 4, and one with a missing sample first.
Waves ==
  Tensors \cup {Tensor("float", <<Num(0), Num(4)>>), Tensor("float", <<NaN, Num(3)>>),
               Tensor("float", <<Num(3), NaN>>), Tensor("int", <<Num(0 - 3), Num(2)>>)}

\* Readings around the two ends of the range from 15 to 20.
Readings ==
  {Tensor("int", <<Num(14), Num(15)>>), Tensor("int", <<Num(20), Num(21)>>),
   Tensor("float", <<Rat(31, 2), Rat(41, 2)>>), Tensor("float", <<NaN, Num(17)>>)}

FilterInputs(f) ==
  CASE f \in {"upper", "ocr"} -> StringTensors
    [] f = "strange" -> NumberTensors \cup Readings
    [] f \in {"totuple", "tolast", "tonone"} -> Tuples
    [] f = "resolution" -> NumberTensors \cup Grids
    [] f = "clipwav" -> Waves
    [] OTHER -> NumberTensors

\* The table of OCRError: a is read as e or as o.
OcrTable == ("a" :> [chars |-> <<"e", "o">>, probs |-> <<Rat(1, 2), Rat(1, 2)>>])

FilterMappings(f) ==
  CASE f = "clip" ->
         {[min |-> lo, max |-> hi] :
            lo \in {Num(1), Num(2), Rat(3, 2)}, hi \in {Num(1), Num(2)}}
    [] f = "drift" -> {[magnitude |-> m] : m \in {Num(2), Rat(1, 2), Num(0 - 1)}}
    [] f = "noise" -> {[mean |-> Rat(1, 2), std |-> sd] : sd \in {Num(0), Num(1)}}
    [] f = "upper" -> {[prob |-> pr] : pr \in {Num(0), Num(1)}}
    [] f = "ocr" -> {[probs |-> OcrTable, p |-> pr] : pr \in {Rat(1, 2), Num(1)}}
    [] f = "missing" -> {[prob |-> Rat(1, 2)]}
    [] f = "Addition" -> {[filter_a |-> "const", filter_b |-> "ident", value |-> Num(2)]}
    [] f = "strange" -> {[f |-> fn] : fn \in {"times_ten", "rand", "strange"}}
    [] f = "resolution" -> {[k |-> Num(k)] : k \in 0 .. 2}
    [] f = "clipwav" -> {[dyn_range |-> r] : r \in {Num(0), Rat(1, 2), Num(1)}}
    [] f \in {"totuple", "tonone"} -> {[prob |-> p] : p \in {Rat(1, 2), Num(1)}}
    [] f = "tolast" -> {[magnitude |-> Num(2)]}
    [] f = "madt" ->
         {[dtype |-> dt, ftr |-> c, mean |-> Rat(1, 2), std |-> Num(1),
           magnitude |-> Rat(1, 2), prob_break |-> Rat(1, 2),
           prob_recover |-> Rat(1, 2), missing_value |-> mv] :
            dt \in {"int", "float"}, c \in {"noise", "drift", "gap"},
            mv \in {Num(0 - 1), Rat(1, 2)}}

NodeKinds ==
  {"clip", "drift", "noise", "upper", "ocr", "missing", "Addition", "madt",
   "strange", "resolution", "clipwav", "totuple", "tolast", "tonone"}

\* Four sources: the streams 000, 010, 101 and 111 of the two draws.
FilterSources == {RandomState(s) : s \in {0, 2, 5, 7}}

AttachFilter == \E f \in NodeKinds : filters = << >> /\ addfilter(f)

ResolveFilter ==
  \E f \in Range(filters) : \E m \in FilterMappings(f) : SetParamsCall(f, m)

ApplyFilter ==
  \E f \in Range(filters) : \E T \in FilterInputs(f) : \E R \in FilterSources :
    ApplyCall(f, T, R)

NextFilters == AttachFilter \/ ResolveFilter \/ ApplyFilter

SpecFilters == Init /\ [][NextFilters]_vars

\* An apply call that returned.
Returned == last.op = "apply" /\ last.err = ""

\* Whether every character of the string has a one-character uppercase form.
PlainUpper(str) == \A j \in 1 .. Len(str) : Len(Upper(str[j])) = 1

\* The arrays of the call, before and after: the data, or the elements of the
\* tuple ApplyToTuple is handed.
Arrays ==
  IF last.inst0[last.f].kind = "ApplyToTuple"
  THEN {[before |-> last.data0[i], after |-> last.data[i]] : i \in DOMAIN last.data0}
  ELSE {[before |-> last.data0, after |-> last.data]}

\* The shape, the number of elements and the element type are as they were.
SameShape ==
  \A a \in Arrays :
    /\ Shape(a.after) = Shape(a.before)
    /\ Len(a.after.elems) = Len(a.before.elems)
    /\ a.after.dtype = a.before.dtype

\* A Clip call that returned, with min <= max.
Clipped ==
  /\ Returned
  /\ last.inst0[last.f].kind = "Clip"
  /\ LessEq(last.inst0[last.f].attrs.min, last.inst0[last.f].attrs.max)

\* Whether min <= e <= max for the bounds of the Clip call.
InRange(e) ==
  /\ LessEq(last.inst0[last.f].attrs.min, e)
  /\ LessEq(e, last.inst0[last.f].attrs.max)

\* The elements that were inside [min, max] are unchanged, and Clip applied
\* to the outcome changes nothing.
ClipKeeps ==
  /\ \A i \in 1 .. Len(last.data0.elems) :
       InRange(last.data0.elems[i]) => last.data.elems[i] = last.data0.elems[i]
  /\ Apply(last.f, last.data, last.rng, last.inst0).data = last.data

\* C16 as stated: after Clip.apply with min <= max every element e of the
\* data satisfies min <= e <= max; the elements that were inside [min, max]
\* are unchanged and a second Clip changes nothing.
C16_AllInRange ==
  Clipped =>
    /\ \A i \in 1 .. Len(last.data.elems) : InRange(last.data.elems[i])
    /\ ClipKeeps

\* C16: after Clip.apply with min <= max every element that was a number
\* satisfies min <= e <= max and every element that was NaN is still NaN; the
\* elements that were inside [min, max] are unchanged and a second Clip
\* changes nothing.
C16_ClipRange ==
  Clipped =>
    /\ \A i \in 1 .. Len(last.data.elems) :
         IF IsNaN(last.data0.elems[i]) THEN IsNaN(last.data.elems[i])
         ELSE InRange(last.data.elems[i])
    /\ ClipKeeps

\* Clip with min < max has been applied to an array with an element below
\* min and one above max, or with a missing value and one above max.
C16_Witness ==
  /\ Clipped
  /\ Less(last.inst0[last.f].attrs.min, last.inst0[last.f].attrs.max)
  /\ \E i \in 1 .. Len(last.data0.elems) :
       Less(last.inst0[last.f].attrs.max, last.data0.elems[i])
  /\ \E i \in 1 .. Len(last.data0.elems) :
       \/ Less(last.data0.elems[i], last.inst0[last.f].attrs.min)
       \/ IsNaN(last.data0.elems[i])
  /\ last.data # last.data0

\* A SensorDrift call on a one-dimensional array that returned.
Drifted ==
  /\ Returned
  /\ last.inst0[last.f].kind = "SensorDrift"
  /\ "shape" \notin DOMAIN last.data0

\* C17: SensorDrift with magnitude m applied to a one-dimensional tensor of
\* length n adds m * (i + 1) to the element at the 0-based position i, for
\* every i < n; with magnitude 2 an element that was 1 becomes 1 + 2 * (i + 1).
C17_DriftLinearity ==
  Drifted =>
    \A i \in 0 .. (Len(last.data0.elems) - 1) :
      /\ last.data.elems[i + 1] =
           Plus(last.data0.elems[i + 1],
                RatMul(last.inst0[last.f].attrs.magnitude, Num(i + 1)))
      /\ (last.inst0[last.f].attrs.magnitude = Num(2)
            /\ last.data0.elems[i + 1] = Num(1))
         => last.data.elems[i + 1] = Num(1 + 2 * (i + 1))

\* SensorDrift with magnitude 2 has been applied to np.full(n, 1).
C17_Witness ==
  /\ Drifted
  /\ last.inst0[last.f].attrs.magnitude = Num(2)
  /\ last.data0 = Full("int", MaxLen, Num(1))
  /\ last.data.elems[MaxLen] = Num(1 + 2 * MaxLen)

\* A ModifyAsDataType call.
Modified == last.op = "apply" /\ last.inst0[last.f].kind = "ModifyAsDataType"

\* What the inner filter leaves of the copy of the data of the call, cast to
\* the configured dtype.
InnerOutcome ==
  Apply(last.inst0[last.f].attrs.ftr,
        AstypeAll(last.data0, last.inst0[last.f].attrs.dtype).data,
        last.rng0, last.inst0)

\* C19: ModifyAsDataType.apply hands the inner filter a copy of the data cast
\* to the configured dtype, never the original: afterwards every element of
\* the original is the element of the filtered copy cast back to the
\* original's element type, the element type is unchanged, and the original
\* is untouched when the inner filter raises.
C19_ModifyAsDataType ==
  Modified =>
    /\ last.data.dtype = last.data0.dtype
    /\ last.rng = InnerOutcome.rng
    /\ last.err = InnerOutcome.err
    /\ IF last.err = ""
       THEN \A i \in 1 .. Len(last.data0.elems) :
              last.data.elems[i] =
                Astype(last.data0.dtype, InnerOutcome.data.elems[i]).v
       ELSE last.data = last.data0

\* GaussianNoise has worked on the integer copy of a float array with a
\* fraction, and the outcome is not what it makes of the array itself.
C19_Witness ==
  /\ Modified
  /\ last.err = ""
  /\ last.inst0[last.f].attrs.dtype = "int"
  /\ last.inst0[last.f].attrs.ftr = "noise"
  /\ last.data0 = Tensor("float", <<Num(0), Rat(3, 2)>>)
  /\ last.data # last.data0
  /\ last.data # Apply("noise", last.data0, last.rng0, last.inst0).data

---------------------------------------------------------------------------
(* A TupleSeries over two Array nodes *)

\* In this part filters holds the filter lists of the child nodes of the
\* TupleSeries, in the order of the children.

\* root = series.TupleSeries([x_node, y_node]) over two new Array nodes.
BuildTuple ==
  /\ filters = << >>
  /\ filters' = <<<< >>, << >>>>
  /\ last' = [NoCall EXCEPT !.op = "TupleSeries"]
  /\ UNCHANGED <<inst, params, ref, driver, area>>

\* The filters attached to some child.
Attached == UNION {Range(filters[i]) : i \in DOMAIN filters}

\* x_node.addfilter(f) or y_node.addfilter(f): the filters of the examples,
\* filter.GaussianNoise(0, ...) and filter.Missing(probability=...), or
\* Missing of filters.py.
AddToChild ==
  \E i \in DOMAIN filters :
  \E f \in {"filter.GaussianNoise", "filter.Missing", "missing"} :
    /\ f \notin Attached
    /\ Len(filters[i]) < 2
    /\ filters' = [filters EXCEPT ![i] = Append(@, f)]
    /\ last' = [NoCall EXCEPT !.op = "addfilter", !.f = f]
    /\ UNCHANGED <<inst, params, ref, driver, area>>

\* root.process(data) while the source of the filters of the examples is in
\* the state G.
ProcessTuple ==
  \E data \in Tuples : \E G \in FilterSources :
    /\ filters # << >>
    /\ \E r \in {TupleSeries(filters, data, G, inst)} :
         /\ r.err # Unmodelled
         /\ inst' = r.inst
         /\ last' = Call("process", "", data, G, inst, params, r)
    /\ UNCHANGED <<filters, params, ref, driver, area>>

NextTuple == BuildTuple \/ AddToChild \/ ProcessTuple

SpecTuple == Init /\ [][NextTuple]_vars

\* C18: after a TupleSeries has processed a tuple, the output is a tuple of
\* the length of the input, and every element whose child node has no filters
\* equals the input element: the filters of child i change element i only.
C18_TupleFrame ==
  (last.op = "process" /\ last.err = "") =>
    /\ Len(last.data) = Len(last.data0)
    /\ \A i \in DOMAIN filters :
         filters[i] = << >> => last.data[i] = last.data0[i]

\* Missing on the labels only has masked a label and left the samples, and
\* the output has two elements.
C18_Witness ==
  /\ last.op = "process"
  /\ last.err = ""
  /\ filters = <<<< >>, <<"filter.Missing">>>>
  /\ Len(last.data) = 2
  /\ last.data[1] = last.data0[1]
  /\ \E i \in 1 .. Len(last.data[2].elems) : IsNaN(last.data[2].elems[i])

---------------------------------------------------------------------------
(* run_commands on the commands of a commands file *)

\* The pieces the command lines are made of: text, input tokens (the third
\* of which no input file stands for), and MID and OUT tokens that differ in
\* the signature, in the number or in the extension.
Pieces ==
  {Text("python3 model.py"), In("1"), In("3"), Token("MID", "1", "npy"),
   Token("MID", "1", "txt"), Token("MID", "2", "txt"), Token("OUT", "1", "npy")}

\* The first line of the file may end in the middle of a token and the second
\* may start with the rest of one.
ModelCommands == {<<a, b>> : a \in Pieces, b \in Pieces \cup {Open("MID", "1")}}

AnalyzeCommands == {<<a, b>> : a \in Pieces \cup {Close("npy")}, b \in Pieces}

\* The names save_errorified returns.
InFileNames == <<"src/tmp/x_0.npy", "src/tmp/y_0.npy">>

\* read_commands_file: the two lines of the file. The clock advances between
\* two calls of unique_filename, or is too coarse to.
ReadCommands ==
  \E m \in ModelCommands : \E a \in AnalyzeCommands : \E tick \in {0, 1} :
    /\ driver.pc = "idle"
    /\ driver' = [pc |-> "commands", run_model_command |-> m,
                  run_analyze_command |-> a, in_file_names |-> InFileNames,
                  clock |-> 0, tick |-> tick, log |-> << >>]
    /\ UNCHANGED <<inst, params, filters, last, ref, area>>

\* What the process has done, written to the log of the run: in main, with
\* the sweep point (i, j) it was done at.
Logged(step) ==
  Append(driver.log,
         IF "i" \in DOMAIN driver
         THEN [step |-> step, i |-> driver.i, j |-> driver.j,
               std |-> driver.std_vals[driver.i],
               prob |-> driver.prob_missing_vals[driver.j]]
         ELSE [step |-> step])

\* run_commands up to its first wait: the replacements are made, the commands
\* are rewritten and printed, and subprocess.run(run_model_command, shell=True)
\* returns when the model command has ended, whatever its exit status.
RunModel ==
  /\ driver.pc = "commands"
  /\ \E rc \in {run_commands(driver.run_model_command, driver.run_analyze_command,
                             driver.in_file_names, driver.clock, driver.tick)} :
       driver' = [pc |-> "model", model |-> rc.model, analyze |-> rc.analyze,
                  mid |-> rc.mid, out |-> rc.out,
                  clock |-> driver.clock + rc.calls * driver.tick,
                  log |-> Logged("model")] @@ driver
  /\ UNCHANGED <<inst, params, filters, last, ref, area>>

\* subprocess.run(run_analyze_command, shell=True) returns when the analyze
\* command has ended.
RunAnalyze ==
  /\ driver.pc = "model"
  /\ driver' = [pc |-> "analyze", log |-> Logged("analyze")] @@ driver
  /\ UNCHANGED <<inst, params, filters, last, ref, area>>

\* The rest of run_commands: the file names of the replacements, in the order
\* of their tokens, are listed and returned.
ReturnNames ==
  /\ driver.pc = "analyze"
  /\ driver' = [pc |-> "ran",
                mid_file_names |-> SortedValues(driver.mid, 1),
                out_file_names |-> SortedValues(driver.out, 1)] @@ driver
  /\ UNCHANGED <<inst, params, filters, last, ref, area>>

NextCommands == ReadCommands \/ RunModel \/ RunAnalyze \/ ReturnNames

SpecCommands == Init /\ [][NextCommands]_vars

\* The two commands as read and as run, one after the other. No line of the
\* model holds the two parts of a token next to each other, so a piece keeps
\* its position.
Before == driver.run_model_command \o driver.run_analyze_command
After == driver.model \o driver.analyze

\* The positions of the MID and OUT tokens of the commands.
TokensAt(sig) == {k \in 1 .. Len(Before) : Before[k].kind = "token" /\ Before[k].sig = sig}

\* Equal tokens are replaced by equal file names and distinct tokens by
\* distinct ones.
SameTokenSameName ==
  /\ Len(After) = Len(Before)
  /\ \A k \in TokensAt("MID") \cup TokensAt("OUT") :
       /\ After[k].kind = "text"
       /\ \A n \in TokensAt("MID") \cup TokensAt("OUT") :
            (Before[k] = Before[n]) = (After[k].text = After[n].text)

\* The file names put in the place of the tokens of a signature.
Substituted(sig) == {After[k].text : k \in TokensAt(sig)}

\* C20 as stated: in run_commands equal MID or OUT tokens get equal file names
\* and distinct tokens distinct ones, in both commands; after the replacement
\* no [IN_i], [MID_j.ext] or [OUT_k.ext] token is left in either command; and
\* mid_file_names and out_file_names list exactly the names substituted for
\* the MID and the OUT tokens.
C20_AllTokensReplaced ==
  driver.pc = "ran" =>
    /\ SameTokenSameName
    /\ \A k \in 1 .. Len(After) : After[k].kind \notin {"token", "in"}
    /\ Range(driver.mid_file_names) = Substituted("MID")
    /\ Range(driver.out_file_names) = Substituted("OUT")

\* Whether the first command ends with the opening part of a token and the
\* second starts with a closing part.
Straddles ==
  /\ driver.run_model_command[Len(driver.run_model_command)].kind = "open"
  /\ driver.run_analyze_command[1].kind = "close"

\* C20: in run_commands equal MID or OUT tokens get equal file names and
\* distinct tokens distinct ones, in both commands; after the replacement no
\* [MID_j.ext] or [OUT_k.ext] token is left, and an [IN_i] token is left
\* exactly when there is no input file i; mid_file_names and out_file_names
\* hold the names substituted for the MID and the OUT tokens, and no other
\* name unless the end of the first command and the start of the second form
\* a token together, for which a name is made and listed but never
\* substituted.
C20_TokensReplaced ==
  driver.pc = "ran" =>
    /\ SameTokenSameName
    /\ \A k \in 1 .. Len(After) :
         /\ After[k].kind # "token"
         /\ After[k].kind = "in" <=>
              /\ Before[k].kind = "in"
              /\ \A i \in 1 .. Len(driver.in_file_names) :
                   Before[k].text # InText(ToString(i))
         /\ After[k].kind = "in" => After[k] = Before[k]
    /\ Substituted("MID") \subseteq Range(driver.mid_file_names)
    /\ ~Straddles => Range(driver.mid_file_names) = Substituted("MID")
    /\ Straddles => Cardinality(Range(driver.mid_file_names) \ Substituted("MID")) <= 1
    /\ Range(driver.out_file_names) = Substituted("OUT")

\* The commands of the file format's example have run while the clock stood
\* still: the MID token of both commands got one name, the OUT token another.
C20_Witness ==
  /\ driver.pc = "ran"
  /\ driver.tick = 0
  /\ driver.run_model_command = <<In("1"), Token("MID", "1", "npy")>>
  /\ driver.run_analyze_command = <<Token("MID", "1", "npy"), Token("OUT", "1", "npy")>>
  /\ driver.model[1] = Text(driver.in_file_names[1])
  /\ driver.model[2] = driver.analyze[1]
  /\ driver.analyze[1] # driver.analyze[2]
  /\ driver.mid_file_names = <<driver.model[2].text>>
  /\ driver.out_file_names = <<driver.analyze[2].text>>

\* The first command ends in "[MID_1" and the second starts with ".npy]": a
\* file name is listed for a token that neither command holds.
ListedNotSubstituted ==
  /\ driver.pc = "ran"
  /\ driver.run_model_command = <<In("1"), Open("MID", "1")>>
  /\ driver.run_analyze_command = <<Close("npy"), Token("OUT", "1", "npy")>>
  /\ driver.model = <<Text(driver.in_file_names[1]), Open("MID", "1")>>
  /\ driver.analyze[1] = Close("npy")
  /\ Len(driver.mid_file_names) = 1
  /\ Substituted("MID") = {}

---------------------------------------------------------------------------
(* run.py: main, statement by statement *)

\* Mutant: the inner loop is left after its first pass.
NextPointBreaks(i, j, m, n) == [i |-> i + 1, j |-> 1]

\* for std in std_vals: for prob in prob_missing_vals: the point after point
\* (i, j) of a grid of m by n values.
NextPoint(i, j, m, n) ==
  IF j < n THEN [i |-> i, j |-> j + 1] ELSE [i |-> i + 1, j |-> 1]

\* err_file_names = save_errorified(std, prob): the names become the input
\* file names of run_commands. An exception leaves main. G is the state the
\* source of the filters is in when the root processes the data.
SaveErrorified ==
  /\ InLoop
  /\ \E std \in {driver.std_vals[driver.i]} :
     \E prob \in {driver.prob_missing_vals[driver.j]} :
     \E G \in SweepSources :
     \E e \in {save_errorified(std, prob, driver.original_data, G,
                               driver.clock, driver.tick)} :
       driver' = IF e.err # ""
                 THEN [driver EXCEPT !.pc = "raised", !.err = e.err,
                                     !.original_data = e.original_data]
                 ELSE [pc |-> "commands",
                       original_data |-> e.original_data,
                       clock |-> driver.clock + 2 * driver.tick,
                       in_file_names |-> <<e.x_name, e.y_name>>,
                       saved |-> Append(driver.saved,
                                        [std |-> std, prob |-> prob,
                                         passed |-> e.passed, source |-> G,
                                         x |-> e.data[1], y |-> e.data[2]]),
                       log |-> Logged("save")] @@ driver
  /\ UNCHANGED <<inst, params, filters, last, ref, area>>

\* combined_file_names.append(...) once run_commands has returned, and the
\* loops go on to the next point.
AppendRecord ==
  /\ driver.pc = "ran"
  /\ "combined_file_names" \in DOMAIN driver
  /\ \E next \in {NextPoint(driver.i, driver.j, Len(driver.std_vals),
                            Len(driver.prob_missing_vals))} :
       driver' = [driver EXCEPT
                    !.pc = "loop",
                    !.combined_file_names =
                       Append(@, ResultRecord(driver.std_vals[driver.i],
                                              driver.prob_missing_vals[driver.j],
                                              driver.out_file_names)),
                    !.log = Logged("append"),
                    !.i = next.i, !.j = next.j]
  /\ UNCHANGED <<inst, params, filters, last, ref, area>>

NextSteps ==
  \/ ReadInput
  \/ SaveErrorified
  \/ RunModel
  \/ RunAnalyze
  \/ ReturnNames
  \/ AppendRecord
  \/ Combine

SpecSteps == Init /\ [][NextSteps]_vars

NextSweep == NextSteps \/ RunAgain

SpecSweep == Init /\ [][NextSweep]_vars

\* The number of sweep points of the grids main has read.
GridSize == Len(driver.std_vals) * Len(driver.prob_missing_vals)

\* C12: when the sweep has finished, the result list holds one record per
\* (std, prob) pair of the grid, |std_vals| * |prob_missing_vals| in all, and
\* the record of a pair carries the values of that pair.
C12_SweepCompleteness ==
  driver.pc = "done" =>
    /\ Len(driver.combined_file_names) = GridSize
    /\ \A a \in 1 .. Len(driver.std_vals) :
         \A b \in 1 .. Len(driver.prob_missing_vals) :
           driver.combined_file_names[(a - 1) * Len(driver.prob_missing_vals) + b].params
             = [gaussian |-> driver.std_vals[a],
                throwaway |-> driver.prob_missing_vals[b]]

\* A sweep over a grid of two deviations and two probabilities has finished.
C12_Witness ==
  /\ driver.pc = "done"
  /\ Len(driver.combined_file_names) = 4
  /\ driver.std_vals[1] # driver.std_vals[2]
  /\ driver.prob_missing_vals[1] # driver.prob_missing_vals[2]

\* C13 as stated: a failure of one sweep iteration never aborts the rest of
\* the grid; when main has ended, every sweep point has been run and has its
\* record, the failed ones marked as failed.
C13_SweepContinues ==
  driver.pc \in {"done", "raised"} =>
    Len(driver.combined_file_names) = GridSize

\* The corrupted samples of the saved record n are those of no other run of
\* the same point: of an earlier point of this sweep, or of the same point of
\* the sweep before.
SameAsEarlier(n) ==
  /\ \A m \in 1 .. Len(driver.saved) :
       (driver.saved[m].std = driver.saved[n].std
          /\ driver.saved[m].prob = driver.saved[n].prob)
       => driver.saved[m].x = driver.saved[n].x
  /\ n <= Len(driver.earlier) => driver.earlier[n] = driver.saved[n]

\* Every corruption of the two runs was handed a random source, and all of
\* them drew from one and the same state: that of a source seeded anew from
\* one base seed.
FreshlySeeded ==
  \E s \in Seeds :
    \A r \in Range(driver.saved) \cup Range(driver.earlier) :
      /\ "random_source" \in r.passed
      /\ r.source = RandomState(s)

C14_RunsDiffer ==
  /\ driver.pc # "idle"
  /\ driver.run = 2
  /\ Len(driver.saved) >= 1
  /\ driver.saved[1].passed = {"data"}
  /\ driver.saved[1].std = driver.earlier[1].std
  /\ driver.saved[1].prob = driver.earlier[1].prob
  /\ driver.saved[1].x # driver.earlier[1].x
  /\ driver.saved[1].source # driver.earlier[1].source

\* The steps of one sweep point, in the order of the loop body.
PointSteps == <<"save", "model", "analyze", "append">>

\* C21: the sweep driver runs one point to completion before the next begins:
\* the k-th thing main does in the loops is step ((k - 1) mod 4) of the point
\* number (k - 1) div 4 of the grid, the points counted with std in the outer
\* loop and prob in the inner one, and the steps of a point are save, model
\* command, analyze command, append; the list of records has one record per
\* append, so no step of a later point precedes the record of an earlier one.
C21_OnePointAtATime ==
  driver.pc \in {"loop", "commands", "model", "analyze", "ran", "raised", "done"} =>
    /\ \A k \in 1 .. Len(driver.log) :
         LET point == (k - 1) \div Len(PointSteps)
             n == Len(driver.prob_missing_vals)
         IN  /\ driver.log[k].step = PointSteps[((k - 1) % Len(PointSteps)) + 1]
             /\ driver.log[k].i = (point \div n) + 1
             /\ driver.log[k].j = (point % n) + 1
             /\ driver.log[k].std = driver.std_vals[(point \div n) + 1]
             /\ driver.log[k].prob = driver.prob_missing_vals[(point % n) + 1]
    /\ Len(driver.combined_file_names) = Len(driver.log) \div Len(PointSteps)
    /\ driver.pc \in {"loop", "done"} => Len(driver.log) % Len(PointSteps) = 0

\* The second point of a two by two grid has been saved: the first point's
\* four steps and its record came before.
C21_Witness ==
  /\ driver.pc = "commands"
  /\ Len(driver.std_vals) = 2
  /\ Len(driver.prob_missing_vals) = 2
  /\ driver.i = 2
  /\ driver.j = 1
  /\ Len(driver.log) = 9
  /\ driver.log[8].step = "append"
  /\ driver.log[9].step = "save"
  /\ Len(driver.combined_file_names) = 2

---------------------------------------------------------------------------
(* Gap.apply, element by element *)

\* C22: Gap.apply walks the elements in order and makes one transition with
\* one uniform draw per element: the state after element i is the chain's
\* state after the draws 1 .. i, the source has moved by one draw per element,
\* and element i holds the missing value if and only if the state after its
\* transition is broken; the elements visited while working keep their value.
C22_GapPerElement ==
  Applied("Gap") =>
    LET a == last.inst0["gap"].attrs
        n == Len(last.data0.elems)
    IN  /\ last.rng = Advance(last.rng0, n)
        /\ Len(last.data.elems) = n
        /\ \A i \in 1 .. n :
             last.data.elems[i] =
               IF ChainEnd(a.working, last.rng0, 1, i, a)
               THEN last.data0.elems[i]
               ELSE Store(last.data0.dtype, a.missing_value).v

\* A sensor that was working broke at the first element and recovered at the
\* last: the first element is overwritten, the last kept.
C22_Witness ==
  /\ Applied("Gap")
  /\ last.inst0["gap"].attrs.working
  /\ Len(last.data0.elems) = MaxLen
  /\ last.data.elems[1] = Num(0 - 1)
  /\ last.data.elems[MaxLen] = last.data0.elems[MaxLen]
  /\ inst["gap"].attrs.working

---------------------------------------------------------------------------
(* SensorDrift and the random source *)

\* C24: SensorDrift.apply consumes no randomness and is deterministic: the
\* source is in the state it was in before the call, and the call on the same
\* data with any other source and any other named dimensions leaves the same
\* data, raises the same error if any, and leaves that source as it was.
C24_DriftDeterministic ==
  (last.op = "apply" /\ last.inst0[last.f].kind = "SensorDrift") =>
    /\ last.rng = last.rng0
    /\ \A R \in FilterSources : \A named_dims \in NamedDims :
         \E r \in {ApplyIn(last.f, last.data0, R, last.inst0, named_dims)} :
           /\ r.data = last.data
           /\ r.err = last.err
           /\ r.rng = R
           /\ r.inst = inst

\* SensorDrift has changed an array of the full length, called with a source
\* whose first draw is 0.5.
C24_Witness ==
  /\ Drifted
  /\ Len(last.data0.elems) = MaxLen
  /\ last.data # last.data0
  /\ Rand(last.rng0, 1) = Rat(1, 2)
  /\ last.rng = last.rng0

---------------------------------------------------------------------------
(* A commutative combinator over two children that draw *)

\* The mappings: Missing and Gap as the children, in either order.
OrderMappings ==
  {[filter_a |-> a, filter_b |-> b, prob |-> Rat(1, 4), prob_break |-> Rat(1, 2),
    prob_recover |-> pr, missing_value |-> Num(0 - 1)] :
     a \in {"missing", "gap"}, b \in {"missing", "gap"}, pr \in {Num(0), Num(1)}}

AttachOrder == \E f \in {"Addition", "Max"} : filters = << >> /\ addfilter(f)

ResolveOrder == \E f \in Range(filters) : \E m \in OrderMappings : SetParamsCall(f, m)

ApplyOrder ==
  \E f \in Range(filters) : \E T \in Tensors : \E R \in Sources : ApplyCall(f, T, R)

NextOrder == AttachOrder \/ ResolveOrder \/ ApplyOrder

SpecOrder == Init /\ [][NextOrder]_vars

\* The call c with the two children of its combinator swapped.
Swapped(c) ==
  Apply(c.f, c.data0, c.rng0,
        [c.inst0 EXCEPT ![c.f].attrs.filter_a = c.inst0[c.f].attrs.filter_b,
                        ![c.f].attrs.filter_b = c.inst0[c.f].attrs.filter_a])

\* C28: in a combinator filter_a is applied completely before filter_b on the
\* shared source: filter_a draws from the source as the call received it,
\* filter_b from the source as filter_a left it, that is after all of
\* filter_a's draws, and the call leaves the source after the draws of both;
\* the data are the operation on what the two children left. With the
\* children swapped the same holds the other way round.
C28_ChildOrder ==
  (last.op = "apply" /\ last.err = "" /\ last.f \in BinaryKinds) =>
    \E a \in {ChildA(last)} :
    \E b \in {Apply(last.inst0[last.f].attrs.filter_b, last.data0,
                    Advance(last.rng0, a.rng.pos - last.rng0.pos), a.inst)} :
      /\ a.rng.seed = last.rng0.seed
      /\ a.rng.pos >= last.rng0.pos
      /\ b.rng.pos >= a.rng.pos
      /\ last.rng = b.rng
      /\ inst = b.inst
      /\ \A i \in 1 .. Len(last.data.elems) :
           last.data.elems[i] =
             Store(last.data0.dtype,
                   Operation(last.f, a.data.elems[i], b.data.elems[i],
                             last.data0.dtype).v).v

\* Addition(Missing, Gap) has left other data than Addition(Gap, Missing)
\* leaves for the same data, the same seed and the same parameters, both
\* having returned.
C28_Witness ==
  /\ last.op = "apply"
  /\ last.err = ""
  /\ last.f = "Addition"
  /\ last.inst0["Addition"].attrs.filter_a = "missing"
  /\ last.inst0["Addition"].attrs.filter_b = "gap"
  /\ last.rng.pos = last.rng0.pos + 2 * Len(last.data0.elems)
  /\ Swapped(last).err = ""
  /\ Swapped(last).rng = last.rng
  /\ Swapped(last).data # last.data

---------------------------------------------------------------------------
(* set_params and the caller's mapping *)

\* The trees the mappings bind: no Difference filter; one as the second
\* child of the composite; one below ApplyWithProbability and
\* ModifyAsDataType, which the second Difference filter then wraps; one below
\* the child of a composite; one bound to both children of the composite and
\* wrapped by the other Difference filter. No filter is bound below itself.
FrameTrees ==
  {[filter_a |-> "const", filter_b |-> "ident", ftr |-> "missing"],
   [filter_a |-> "const", filter_b |-> "diff", ftr |-> "missing"],
   [filter_a |-> "const", filter_b |-> "ident", ftr |-> "diff"],
   [filter_a |-> "const", filter_b |-> "diff", ftr |-> "Addition"],
   [filter_a |-> "diff2", filter_b |-> "diff2", ftr |-> "const"]}

\* The mappings: every key of every filter, the children of one of the trees,
\* and the value of the Constant filter left out or not.
FrameMappings ==
  {Restrict([prob |-> Rat(1, 2), prob_break |-> Rat(1, 2), prob_recover |-> Num(1),
             missing_value |-> NaN, value |-> v, awp_prob |-> Num(1),
             dtype |-> "float", min |-> Num(0), max |-> Num(1)] @@ t, S) :
     v \in Values, t \in FrameTrees,
     S \in {Keys \cup {"min", "max"}, (Keys \cup {"min", "max"}) \ {"value"}}}

FrameFilters ==
  {"missing", "gap", "const", "ident", "clip", "awp", "madt", "diff", "diff2",
   "Addition"}

AttachFrame == \E f \in FrameFilters : filters = << >> /\ addfilter(f)

\* set_params with a fresh mapping, or with the mapping an earlier call was
\* given and may have written to.
ResolveFrame ==
  \E f \in Range(filters) : \E m \in FrameMappings \cup {params} :
    /\ m # << >>
    /\ SetParamsCall(f, m)

NextFrame == AttachFrame \/ ResolveFrame

SpecFrame == Init /\ [][NextFrame]_vars

\* The keys the set_params call has added to the mapping it was given.
NewKeys == (DOMAIN params) \ (DOMAIN last.params0)

\* No key the mapping held is removed or bound to another value, and every
\* new key is bound to an Identity filter.
OnlyIdentitiesAdded ==
  /\ \A k \in DOMAIN last.params0 :
       k \in DOMAIN params /\ params[k] = last.params0[k]
  /\ \A k \in NewKeys : inst[params[k]].kind = "Identity"

\* C29 as stated: set_params leaves the mapping as it was for every filter
\* except Difference, and Difference.set_params adds exactly one key, bound
\* to an Identity filter, removing and overwriting none.
C29_FrameAsStated ==
  last.op = "set_params" =>
    IF inst[last.f].kind = "Difference"
    THEN OnlyIdentitiesAdded /\ Cardinality(NewKeys) = 1
    ELSE params = last.params0

\* The keys under which the constructor of o was given its child filters, in
\* the order set_params resolves them: the wrapped filter of a Difference,
\* the children of the other composites.
DelegateKeys(o) ==
  IF o.kind = "Difference" THEN o.ids
  ELSE SelectSeq(o.ids, LAMBDA k :
         \E j \in DOMAIN o.ids :
           o.ids[j] = k /\ AttrNames(o.kind)[j] \in Range(ChildAttrs(o.kind)))

\* The Difference.set_params calls that f.set_params(P) makes when every
\* filter resolves: one for f itself if it is a Difference filter, and those
\* of the set_params calls on the filters P binds to the keys of its
\* children, a filter bound to two keys being resolved twice.
RECURSIVE DifferenceCalls(_, _, _)
RECURSIVE DifferenceCallsBelow(_, _, _, _)
DifferenceCallsBelow(keys, j, P, I) ==
  IF j > Len(keys) THEN 0
  ELSE (IF keys[j] \in DOMAIN P THEN DifferenceCalls(P[keys[j]], P, I) ELSE 0)
         + DifferenceCallsBelow(keys, j + 1, P, I)

DifferenceCalls(f, P, I) ==
  (IF I[f].kind = "Difference" THEN 1 ELSE 0)
    + DifferenceCallsBelow(DelegateKeys(I[f]), 1, P, I)

\* C29: set_params removes and overwrites no key of the mapping, and adds
\* keys only through Difference filters: every Difference.set_params call,
\* made by the caller or by a composite on a filter below it at any depth,
\* adds exactly one key, bound to an Identity filter, also when its child
\* then fails to resolve. A call that returns has added as many keys as it
\* made Difference.set_params calls (none for a tree without a Difference
\* filter, two for a Difference filter bound to both children), a call that
\* raises no more than that, and a call on a Difference filter at least one.
C29_Frame ==
  last.op = "set_params" =>
    /\ OnlyIdentitiesAdded
    /\ Cardinality(NewKeys) <= DifferenceCalls(last.f, last.params0, inst)
    /\ last.err = "" =>
         Cardinality(NewKeys) = DifferenceCalls(last.f, last.params0, inst)
    /\ inst[last.f].kind = "Difference" => Cardinality(NewKeys) >= 1

\* The composite whose two children are one Difference filter has been
\* resolved: the one call added two Identity keys.
C29_Witness ==
  /\ last.op = "set_params"
  /\ last.f = "Addition"
  /\ last.err = ""
  /\ last.params0.filter_a = "diff2" /\ last.params0.filter_b = "diff2"
  /\ Cardinality(NewKeys) = 2
  /\ OnlyIdentitiesAdded

\* The Difference filter has been resolved again with the mapping its first
\* set_params call wrote to: the mapping holds two Identity keys.
C29_ResolvedAgain ==
  /\ last.op = "set_params"
  /\ last.f = "diff"
  /\ last.err = ""
  /\ Cardinality(NewKeys) = 1
  /\ Cardinality((DOMAIN params) \ (Keys \cup NumericKeys)) = 2
  /\ OnlyIdentitiesAdded

\* A Difference filter that wraps a Difference filter has been resolved: the
\* one call added two keys.
C29_Wrapped ==
  /\ last.op = "set_params"
  /\ inst[last.f].kind = "Difference"
  /\ last.err = ""
  /\ Cardinality(NewKeys) = 2

\* A composite has been resolved whose child's child is a Difference filter.
C29_Grandchild ==
  /\ last.op = "set_params"
  /\ last.f = "awp"
  /\ last.err = ""
  /\ last.params0.ftr = "Addition" /\ last.params0.filter_b = "diff"
  /\ Cardinality(NewKeys) = 1

---------------------------------------------------------------------------
(* The area filters: seeds, rectangles and the difference array *)

\* The value of an expression, computed once: the member of a set of one.

Max2(a, b) == IF a >= b THEN a ELSE b
Min2(a, b) == IF a <= b THEN a ELSE b

\* The largest side of a grid.
MaxSide == MaxLen + 1

\* Mutant: the number of failures before the first success, which may be 0.
RECURSIVE GeometricFailures(_, _, _)
GeometricFailures(p, u, X) ==
  IF Pow(p[2] - p[1], X) * u[2] > (u[2] - u[1]) * Pow(p[2], X)
  THEN GeometricFailures(p, u, X + 1)
  ELSE X - 1

\* random_state.geometric(p) for the uniform draw u, as numpy computes it for
\* p >= 1/3: X = 1, sum = prod = p; while u > sum: prod *= 1 - p, sum += prod,
\* X += 1. In pass X the sum is 1 - (1 - p)^X, so the loop goes on while
\* (1 - p)^X > 1 - u, here on the numerators and denominators of p and u. The
\* number of trials up to the first success, at least 1.
RECURSIVE GeometricSearch(_, _, _)
GeometricSearch(p, u, X) ==
  IF Pow(p[2] - p[1], X) * u[2] > (u[2] - u[1]) * Pow(p[2], X)
  THEN GeometricSearch(p, u, X + 1)
  ELSE X

\* random_state.geometric(p) as numpy computes it for p < 1/3, by inversion:
\* ceil(log(1.0 - u) / log(1.0 - p)), the least whole number X with
\* (1 - p)^X <= 1 - u, here on the numerators and denominators of p and u.
\* A uniform draw of 0.0 gives 0.
RECURSIVE GeometricInversion(_, _, _)
GeometricInversion(p, u, X) ==
  IF Pow(p[2] - p[1], X) * u[2] > (u[2] - u[1]) * Pow(p[2], X)
  THEN GeometricInversion(p, u, X + 1)
  ELSE X

\* Whether numpy computes geometric(p) by the search: p >= 1/3.
BySearch(p) == 3 * p[1] >= p[2]

\* random_state.geometric(p) for the uniform draw u
geometric(p, u) ==
  IF BySearch(p) THEN GeometricSearch(p, u, 1) ELSE GeometricInversion(p, u, 0)

\* round(v) of Python: to the nearest whole number, halves to the even one.
Round(v) ==
  LET q == FloorDiv(2 * v[1] + v[2], 2 * v[2])
  IN  IF (2 * v[1] + v[2]) % (2 * v[2]) = 0 /\ q % 2 = 1 THEN q - 1 ELSE q

\* The radius from the k-th entry of the table on, sum being the probability
\* of the radii below k - 1: the first radius whose cumulated probability
\* exceeds u.
RECURSIVE RadiusFrom(_, _, _, _)
RadiusFrom(table, u, k, sum) ==
  The({IF Less(u, s) \/ k = Len(table) THEN k - 1
       ELSE RadiusFrom(table, u, k + 1, s) :
       s \in {RatAdd(sum, table[k])}})

\* radius_generator.generate(random_state) of a generator with a probability
\* table: the radius k with probability table[k + 1], by one uniform draw.
generate(table, u) == RadiusFrom(table, u, 1, Num(0))

AreaKinds == {"MissingArea", "StainArea", "FastRain"}

\* The radii of the seed a filter of this kind has generated, from the source
\* R: the radius drawn, and the radii of the rectangle along y and along x.
Radii(kind, table, R) ==
  CASE kind = "FastRain" ->
         The({[r |-> Max2(0, Round(v)), ry |-> Max2(0, Round(v)), rx |-> 1] :
              v \in {Normal(R, 1, Num(20), Num(10))}})
    [] kind = "Snow" ->
         The({[r |-> Round(v), ry |-> Round(v), rx |-> Round(v)] :
              v \in {Normal(R, 1, Num(5), Num(2))}})
    [] OTHER ->
         The({[r |-> r, ry |-> r, rx |-> r] : r \in {generate(table, Rand(R, 1))}})

\* Mutant: the rectangle ends at the seed's radius, not one past it.
CornersClosed(kind, y, x, ry, rx, width, height) ==
  [x0 |-> Max2(x - rx, 0), x1 |-> Min2(x + rx, width),
   y0 |-> Max2(y - ry, 0), y1 |-> Min2(y + ry, height)]

\* x0, x1, y0, y1 of a seed at (y, x): the rectangle is rows y0 .. y1 - 1 and
\* columns x0 .. x1 - 1.
Corners(kind, y, x, ry, rx, width, height) ==
  IF kind = "Snow"
  THEN [x0 |-> Max2(0, x - rx), x1 |-> Min2(width - 1, x + rx) + 1,
        y0 |-> Max2(0, y - ry), y1 |-> Min2(height - 1, y + ry) + 1]
  ELSE [x0 |-> Max2(x - rx, 0), x1 |-> Min2(x + rx + 1, width),
        y0 |-> Max2(y - ry, 0), y1 |-> Min2(y + ry + 1, height)]

\* np.zeros(shape=(height + 1, width + 1))
Zeros(height, width) == [y \in 0 .. height |-> [x \in 0 .. width |-> 0]]

\* errs[y, x] += d
Bump(errs, y, x, d) == [errs EXCEPT ![y][x] = @ + d]

\* The four corner updates of the difference array.
Splat(errs, c) ==
  Bump(Bump(Bump(Bump(errs, c.y0, c.x0, 1), c.y0, c.x1, 0 - 1), c.y1, c.x0, 0 - 1),
       c.y1, c.x1, 1)

\* Whether the width of the loop is a numpy integer: MissingArea takes it as
\* np.max(widths) when the text has a row and as the int 0 when it has none;
\* the filters of images take it from node_data.shape, a tuple of ints.
NumpyWidth(a) == a.kind = "MissingArea" /\ a.height >= 1

\* ind // width, towards minus infinity. Where the width is a numpy integer
\* the division by 0 is 0, with a RuntimeWarning; where it is an int the
\* division by 0 raises, and SeedPass has left before.
RowOf(a, ind) ==
  IF NumpyWidth(a) /\ a.width = 0 THEN 0 ELSE ind \div a.width

\* The seed of a pass that did not leave the loop: its position, its radii
\* and its corners.
Seed(a, ind, rad) ==
  [y |-> RowOf(a, ind), x |-> ind - RowOf(a, ind) * a.width]
    @@ rad
    @@ Corners(a.kind, RowOf(a, ind), ind - RowOf(a, ind) * a.width,
               rad.ry, rad.rx, a.width, a.height)

\* np.cumsum(errs, axis=0)[y, x] and np.cumsum(errs, axis=1)[y, x]
RECURSIVE SumDown(_, _, _)
SumDown(errs, y, x) == IF y < 0 THEN 0 ELSE errs[y][x] + SumDown(errs, y - 1, x)
RECURSIVE SumAcross(_, _, _)
SumAcross(errs, y, x) == IF x < 0 THEN 0 ELSE errs[y][x] + SumAcross(errs, y, x - 1)

Cumsum0(errs) == [y \in DOMAIN errs |-> [x \in DOMAIN errs[y] |-> SumDown(errs, y, x)]]
Cumsum1(errs) == [y \in DOMAIN errs |-> [x \in DOMAIN errs[y] |-> SumAcross(errs, y, x)]]

\* Mutant: only the sum along the rows is taken.
AccumulatedAcross(errs) == Cumsum1(errs)

\* errs = np.cumsum(errs, axis=0); errs = np.cumsum(errs, axis=1)
Accumulated(errs) == Cumsum1(Cumsum0(errs))

\* errs = (errs > 0)
Positive(errs) == [y \in DOMAIN errs |-> [x \in DOMAIN errs[y] |-> errs[y][x] > 0]]

\* floor(sqrt(n / d)) for n >= 0 and d > 0, from k on: the largest k with
\* d * k * k <= n.
RECURSIVE RootFrom(_, _, _)
RootFrom(n, d, k) == IF d * (k + 1) * (k + 1) <= n THEN RootFrom(n, d, k + 1) ELSE k

\* The float a + sign * sqrt(q), for rationals a and q >= 0 and sign 1 or -1.
Surd(a, sign, q) == [a |-> a, sign |-> sign, q |-> q]

Neg(c) == RatSub(Num(0), c)
Sign(c) == IF c[1] < 0 THEN 0 - 1 ELSE 1

\* c * c
Sq(c) == The({RatMul(v, v) : v \in {c}})

\* g <= sqrt(q) and sqrt(q) <= g for rationals g >= 0 and q >= 0: by the
\* whole part of the root where that decides, and by the squares otherwise.
BelowRoot(g, q) ==
  The({IF g[1] <= root * g[2] THEN TRUE
       ELSE IF g[1] >= (root + 1) * g[2] THEN FALSE
       ELSE g[1] * g[1] * q[2] <= q[1] * g[2] * g[2] :
       root \in {RootFrom(q[1], q[2], 0)}})

AboveRoot(g, q) ==
  The({IF g[1] >= (root + 1) * g[2] THEN TRUE
       ELSE IF g[1] < root * g[2] THEN FALSE
       ELSE q[1] * g[2] * g[2] <= g[1] * g[1] * q[2] :
       root \in {RootFrom(q[1], q[2], 0)}})

\* c <= z and z <= c, for a rational c and a surd z
SurdLe(c, z) ==
  The({The({IF s.sign > 0 THEN g[1] <= 0 \/ BelowRoot(g, s.q)
            ELSE g[1] <= 0 /\ The({AboveRoot(h, s.q) : h \in {Neg(g)}}) :
            g \in {RatSub(c, s.a)}}) :
       s \in {z}})

SurdGe(c, z) ==
  The({SurdLe(d, s) : d \in {Neg(c)}, s \in {Surd(Neg(z.a), 0 - z.sign, z.q)}})

\* floor(z): it is at most one away from floor(a) + sign * floor(sqrt(q)).
FloorSurd(z) ==
  The({The({CHOOSE k \in base - 1 .. base + 1 :
              SurdLe(Num(k), s) /\ ~SurdLe(Num(k + 1), s) :
            base \in {FloorDiv(s.a[1], s.a[2])
                        + s.sign * RootFrom(s.q[1], s.q[2], 0)}}) :
       s \in {z}})

\* z.astype(int): towards zero
TruncSurd(z) ==
  The({IF SurdLe(Num(0), s) THEN FloorSurd(s)
       ELSE 0 - FloorSurd(Surd(Neg(s.a), 0 - s.sign, s.q)) :
       s \in {z}})

\* sqrt(q) where it is rational
RootOf(q) == The({Rat(RootFrom(v[1] * v[2], 1, 0), v[2]) : v \in {q}})

\* z as a value of the dtype: a surd that is no rational number is outside the
\* floats of the model.
AstypeSurd(dtype, z) ==
  The({IF dtype # "float" THEN Val(Num(TruncSurd(s)))
       ELSE The({IF Sq(root) = s.q
                 THEN Val(RatAdd(s.a, RatMul(Num(s.sign), root)))
                 ELSE Raise(Unmodelled) :
                 root \in {RootOf(s.q)}}) :
       s \in {z}})

\* np.clip(z, lo, hi) = minimum(maximum(z, lo), hi)
ClipSurd(z, lo, hi) ==
  The({IF SurdGe(lo, s) THEN Surd(IF Less(hi, lo) THEN hi ELSE lo, 1, Num(0))
       ELSE IF SurdLe(hi, s) THEN Surd(hi, 1, Num(0))
       ELSE s :
       s \in {z}})

\* An image of one colour: height rows of width pixels of three channels.
Image(height, width, v) ==
  [y \in 0 .. height - 1 |-> [x \in 0 .. width - 1 |-> [j \in 0 .. 2 |-> v]]]

\* node_data.shape of an image of height rows of width pixels. The pixels of
\* an image without a row or without a column are no pixels, and its shape
\* is kept beside them.
ImageShape(height, width) == <<height, width, 3>>

\* node_data[:, :, i].shape
ChannelShape(shape) == <<shape[1], shape[2]>>

\* Whether some pixel of the image is outside the floats of the model.
AnyUnmodelled(cells) ==
  \E y \in DOMAIN cells : \E x \in DOMAIN cells[y] : \E j \in DOMAIN cells[y][x] :
    cells[y][x][j].err # ""

Stored(cells) ==
  [y \in DOMAIN cells |-> [x \in DOMAIN cells[y] |->
     [j \in DOMAIN cells[y][x] |-> cells[y][x][j].v]]]

\* np.power(t, e) for a count e >= 0
Power(t, e) == Rat(Pow(t[1], e), Pow(t[2], e))

\* StainArea.apply after the sums: errs = np.power(transparency, errs), and
\* every channel of the image is multiplied by it and stored.
StainAreaModify(data, dtype, errs, transparency_percentage) ==
  [y \in DOMAIN data |-> [x \in DOMAIN data[y] |-> [j \in DOMAIN data[y][x] |->
     Store(dtype, RatMul(data[y][x][j],
                         Power(transparency_percentage, errs[y][x])))]]]

\* add[y, x] of channel j in FastRain.apply: random_state.normal(locs, scales)
\* draws one value for every cell of errs, row by row, with locs = 5 * errs
\* and scales = 10 * sqrt(errs / 12) + 4 * errs; the last channel gets
\* 30 * errs more.
RainAdd(errs, height, width, j, y, x, R) ==
  The({Surd(RatAdd(Num((IF j = 2 THEN 35 ELSE 5) * e), RatMul(Num(4 * e), d)),
            Sign(d), RatMul(Sq(d), Rat(25 * e, 3))) :
       e \in {errs[y][x]},
       d \in {Deviates[Digit(R, j * (height + 1) * (width + 1)
                                + y * (width + 1) + x + 1) + 1]}})

\* The pixel FastRain stores: with range 1,
\* np.clip(node_data + add / 255, 0, 1), here 1/255 of
\* np.clip(255 * node_data + add, 0, 255), and otherwise
\* np.clip(node_data + add.astype(int), 0, 255).
RainPixel(v, dtype, range, add) ==
  IF range = 1
  THEN The({IF dtype # "float"
            THEN Val(Num(IF SurdLe(Num(255), z) THEN 1 ELSE 0))
            ELSE The({IF f.err # "" THEN f ELSE Val(RatMul(f.v, Rat(1, 255))) :
                      f \in {AstypeSurd(dtype, z)}}) :
            z \in {ClipSurd(Surd(RatAdd(RatMul(Num(255), v), add.a), add.sign,
                                 add.q),
                            Num(0), Num(255))}})
  ELSE The({AstypeSurd(dtype, z) :
            z \in {ClipSurd(Surd(RatAdd(v, Num(TruncSurd(add))), 1, Num(0)),
                            Num(0), Num(255))}})

\* FastRain.apply after the sums.
FastRainModify(data, dtype, errs, height, width, range, R) ==
  [y \in DOMAIN data |-> [x \in DOMAIN data[y] |-> [j \in DOMAIN data[y][x] |->
     The({RainPixel(v, dtype, range, add) :
          v \in {data[y][x][j]},
          add \in {RainAdd(errs, height, width, j, y, x, R)}})]]]

\* flakes[r][dy + r, dx + r] times the pixel's distance from white, c: the
\* flake is max(0, 1 - sqrt(dx * dx + dy * dy) / r) * snowflake_alpha, for
\* r > 0.
FlakeAdd(c, r, dy, dx) ==
  IF dx * dx + dy * dy >= r * r THEN Surd(Num(0), 1, Num(0))
  ELSE The({Surd(v, 0 - Sign(v), RatMul(Sq(v), Rat(dx * dx + dy * dy, r * r))) :
            v \in {c}})

\* node_data[y0:y1, x0:x1, j] +=
\*   ((255 - node_data[y0:y1, x0:x1, j]) * flakes[r][fy0:fy1, fx0:fx1]).astype(dtype)
\* for the three channels, for the flake of a seed.
Flaked(data, dtype, seed, snowflake_alpha) ==
  [y \in DOMAIN data |-> [x \in DOMAIN data[y] |-> [j \in DOMAIN data[y][x] |->
     IF seed.y0 <= y /\ y < seed.y1 /\ seed.x0 <= x /\ x < seed.x1
     THEN The({The({IF add.err # "" THEN add
                    ELSE Val(RatAdd(data[y][x][j], add.v)) :
                    add \in {AstypeSurd(dtype, z)}}) :
               z \in {FlakeAdd(RatMul(RatSub(Num(255), data[y][x][j]),
                                      snowflake_alpha),
                               seed.r, y - seed.y, x - seed.x)}})
     ELSE Val(data[y][x][j])]]]

\* cos(2 * pi * u) and sin(2 * pi * u) for a draw u of the source: the draws
\* are 0 and 1/2, and the sine of pi is taken as 0.
CosTurn(u) == IF u = Num(0) THEN Num(1) ELSE Num(0 - 1)
SinTurn(u) == Num(0)

\* f(t) = 6 * t ** 5 - 15 * t ** 4 + 10 * t ** 3
Fade(t) ==
  The({RatMul(RatMul(Sq(v), v),
              RatAdd(RatSub(RatMul(Num(6), Sq(v)), RatMul(Num(15), v)), Num(10))) :
       v \in {t}})

\* a * (1 - t) + t * b
Mix(a, b, t) ==
  The({RatAdd(RatMul(a, RatSub(Num(1), v)), RatMul(v, b)) : v \in {t}})

\* generate_perlin_noise(height, width, random_state)[y, x] without its
\* factor sqrt(2): the four gradients are those of the angles
\* 2 * pi * random_state.rand(2, 2), drawn row by row.
Perlin(height, width, y, x, R) ==
  LET gy == Rat(y, height)
      gx == Rat(x, width)
      Dot(k, a, b) ==
        RatAdd(RatMul(a, CosTurn(Rand(R, k))), RatMul(b, SinTurn(Rand(R, k))))
      n00 == Dot(1, gy, gx)
      n01 == Dot(2, gy, RatSub(gx, Num(1)))
      n10 == Dot(3, RatSub(gy, Num(1)), gx)
      n11 == Dot(4, RatSub(gy, Num(1)), RatSub(gx, Num(1)))
  IN  Mix(Mix(n00, n10, Fade(gy)), Mix(n01, n11, Fade(gy)), Fade(gx))

\* (snowstorm_alpha * (255 - v) * noise), with noise = (sqrt(2) * n + 1) / 2
StormAdd(c, n) ==
  The({The({Surd(RatMul(v, Rat(1, 2)), Sign(b), RatMul(Num(2), Sq(b))) :
            b \in {RatMul(RatMul(v, n), Rat(1, 2))}}) :
       v \in {c}})

\* Snow.apply after the loop: the noise is added to every channel.
AddNoise(data, dtype, height, width, snowstorm_alpha, R) ==
  [y \in DOMAIN data |-> [x \in DOMAIN data[y] |-> [j \in DOMAIN data[y][x] |->
     The({The({IF add.err # "" THEN add
               ELSE Val(RatAdd(data[y][x][j], add.v)) :
               add \in {AstypeSurd(dtype, z)}}) :
          z \in {StormAdd(RatMul(snowstorm_alpha, RatSub(Num(255), data[y][x][j])),
                          Perlin(height, width, y, x, R))}})]]]

\* What a pass that did not leave the loop does with its seed: Snow skips a
\* seed whose radius is not positive and draws the flake of any other into
\* the image; the others update the difference array.
Seeded(a, ind, seed) ==
  IF a.kind = "Snow"
  THEN IF seed.r <= 0
       THEN [a EXCEPT !.ind = ind, !.rng = Advance(@, 2), !.draws = @ + 1]
       ELSE The({[a EXCEPT !.ind = ind, !.rng = Advance(@, 2), !.draws = @ + 1,
                           !.seeds = Append(@, seed),
                           !.data = Stored(cells),
                           !.err = IF AnyUnmodelled(cells) THEN Unmodelled ELSE ""] :
                 cells \in {Flaked(a.data, a.dtype, seed, a.attrs.snowflake_alpha)}})
  ELSE [a EXCEPT !.ind = ind, !.rng = Advance(@, 2), !.draws = @ + 1,
                 !.seeds = Append(@, seed), !.errs = Splat(@, seed)]

\* Mutant: the flattened index starts again from the draw.
SeedPassRestarting(a) ==
  [a EXCEPT !.ind = geometric(a.probability, Rand(a.rng, 1)) - 2,
            !.rng = Advance(@, 1), !.draws = @ + 1]

\* One pass of the loop `while True: ind += random_state.geometric(p) ...`:
\* the pass leaves the loop when ind >= width * height; otherwise it divides
\* by the width and makes a seed. The division by a width of 0 raises
\* ZeroDivisionError where the width is an int; where it is a numpy integer
\* the pass goes on, and the four writes of its seed, x0 = x1 = 0, cancel.
SeedPass(a) ==
  The({IF ind >= a.width * a.height
       THEN [a EXCEPT !.pc = "seeded", !.ind = ind, !.rng = Advance(@, 1),
                      !.draws = @ + 1]
       ELSE IF a.width = 0 /\ ~NumpyWidth(a)
       THEN [a EXCEPT !.pc = "raised", !.ind = ind, !.rng = Advance(@, 1),
                      !.draws = @ + 1, !.err = "ZeroDivisionError"]
       ELSE The({Seeded(a, ind, seed) : seed \in {Seed(a, ind, rad)}}) :
       ind \in {a.ind + geometric(a.probability, Rand(a.rng, 1))},
       rad \in {Radii(a.kind, a.table, Advance(a.rng, 1))}})

\* The locals of apply when it enters the loop. data is the image and attrs
\* are the attributes of the filter, from the first statement of apply that
\* reads them on.
EnterLoop(kind, height, width, probability, table, R) ==
  [pc |-> "seeding", kind |-> kind, height |-> height, width |-> width,
   probability |-> probability, table |-> table, ind |-> 0 - 1,
   errs |-> Zeros(height, width), diff |-> Zeros(height, width),
   seeds |-> << >>, rng |-> R, draws |-> 0, mask |-> << >>,
   data |-> << >>, dtype |-> "", attrs |-> << >>, err |-> ""]

\* Whether the loop has made MaxPos passes that drew 0: the source draws 0
\* from then on, and a loop with a probability below 1/3 does not leave.
Stays(a) == a.draws - (a.ind + 1) >= MaxPos

\* The loop, to its end; a loop that stays is outside the model.
RECURSIVE SeedLoop(_)
SeedLoop(a) ==
  IF a.pc # "seeding" THEN a
  ELSE IF Stays(a) THEN [a EXCEPT !.pc = "raised", !.err = Unmodelled]
  ELSE The({SeedLoop(n) : n \in {SeedPass(a)}})

\* The pixels of the images: a grey of whole numbers up to 255 and a
\* grey of floats up to 1.
Pixels == {[dtype |-> "int", v |-> Num(200)], [dtype |-> "float", v |-> Rat(1, 2)]}

\* set_params(params_dict) of the filter of an image, newly constructed:
\* the attributes are assigned one after another, and the first key the
\* mapping lacks raises KeyError.
ResolveImage ==
  \E f \in ImageFilters : \E P \in ImageKeyMappings(f) :
  \E r \in {SetParams(f, P, inst)} :
    /\ area.pc = "idle"
    /\ filters = << >>
    /\ area' = [pc |-> IF r.err = "" THEN "resolved" ELSE "raised",
                kind |-> inst[f].kind, params |-> P, self |-> r.inst[f],
                err |-> r.err]
    /\ UNCHANGED <<inst, params, filters, last, ref, driver>>

\* The filter of the kind has its attributes and apply has not been called.
HasParams(kind) == area.pc = "resolved" /\ area.kind = kind

\* apply of an area filter or of Snow up to the loop, on a grid of the size
\* of the data: the filters of images read the height and the width from
\* node_data.shape, and every write to the image is a write in place, which
\* leaves the shape alone. Snow writes to the image in the loop; its images
\* are those of whole numbers, a flake on floats being no rational number.
StartSeeds ==
  \E kind \in AreaKinds \cup {"Snow"} :
  \E height \in 0 .. MaxSide : \E width \in 0 .. MaxSide :
  \E R \in Sources :
  \E px \in {p \in Pixels : p.dtype = "int"} :
    /\ HasParams(kind)
    \* a text without a row has the width 0
    /\ (kind = "MissingArea" /\ height = 0) => width = 0
    \* a seed takes two draws and the pass that leaves the loop takes one
    /\ 2 * (height * width) + 1 <= MaxDraws
    /\ \E attrs \in {area.self.attrs} :
       \E a \in {EnterLoop(kind, height, width,
                           IF kind = "Snow" THEN attrs.snowflake_probability
                           ELSE attrs.probability,
                           IF kind \in {"MissingArea", "StainArea"}
                           THEN attrs.radius_generator ELSE << >>, R)} :
         area' = IF kind = "Snow"
                 THEN [a EXCEPT !.data = Image(height, width, px.v),
                                !.dtype = px.dtype, !.attrs = attrs]
                        @@ [shape |-> ImageShape(height, width)]
                 ELSE IF kind = "MissingArea" THEN [a EXCEPT !.attrs = attrs]
                 ELSE [a EXCEPT !.attrs = attrs]
                        @@ [shape |-> ImageShape(height, width)]
    /\ UNCHANGED <<inst, params, filters, last, ref, driver>>

SeedIteration ==
  /\ area.pc = "seeding"
  \* a loop is followed through MaxPos passes that drew 0
  /\ ~Stays(area)
  /\ area' = SeedPass(area)
  /\ area'.err # Unmodelled
  /\ UNCHANGED <<inst, params, filters, last, ref, driver>>

\* The two cumulative sums after the loop; MissingArea makes its mask of them.
Accumulate ==
  /\ area.pc = "seeded"
  /\ area.kind \in AreaKinds
  /\ \E errs \in {Accumulated(area.errs)} :
       area' = [area EXCEPT !.pc = "summed", !.diff = area.errs, !.errs = errs,
                            !.mask = IF area.kind = "MissingArea"
                                     THEN Positive(errs) ELSE << >>]
  /\ UNCHANGED <<inst, params, filters, last, ref, driver>>

\* The rest of StainArea.apply and of FastRain.apply: the image is read and
\* written, channel by channel. FastRain draws a normal value for every cell
\* of errs and every channel.
Modify ==
  /\ area.pc = "summed"
  /\ area.kind \in {"StainArea", "FastRain"}
  /\ \E px \in Pixels :
     \E attrs \in {area.attrs} :
     \E data \in {Image(area.height, area.width, px.v)} :
     \E cells \in {IF area.kind = "StainArea"
                   THEN StainAreaModify(data, px.dtype, area.errs,
                                        attrs.transparency_percentage)
                   ELSE FastRainModify(data, px.dtype, area.errs, area.height,
                                       area.width, attrs.range, area.rng)} :
       /\ ~AnyUnmodelled(cells)
       /\ area' = [area EXCEPT
                     !.pc = "returned", !.data = Stored(cells),
                     !.dtype = px.dtype,
                     !.rng = IF area.kind = "FastRain"
                             THEN Advance(@, 3 * (area.height + 1) * (area.width + 1))
                             ELSE @]
  /\ UNCHANGED <<inst, params, filters, last, ref, driver>>

\* The rest of Snow.apply: the perlin noise, of four uniform draws, is added
\* to every channel.
Storm ==
  /\ area.pc = "seeded"
  /\ area.kind = "Snow"
  /\ \E cells \in {AddNoise(area.data, area.dtype, area.height, area.width,
                             area.attrs.snowstorm_alpha, area.rng)} :
       /\ ~AnyUnmodelled(cells)
       /\ area' = [area EXCEPT !.pc = "returned", !.data = Stored(cells),
                               !.rng = Advance(@, 4)]
  /\ UNCHANGED <<inst, params, filters, last, ref, driver>>

\* An image whose pixels differ: a multiple of np.arange(height * width * 3)
\* in the shape (height, width, 3).
Ramp(height, width, step) ==
  [y \in 0 .. height - 1 |-> [x \in 0 .. width - 1 |-> [j \in 0 .. 2 |->
     RatMul(step, Num(3 * (y * width + x) + j))]]]

\* pixel_sum and pixel_count of Blur.apply from the k-th of the nine cells
\* around (y0, x0) on, row by row: the cells with y < 0, x < 0, y == height or
\* x == width are skipped. sum is [j, count].
RECURSIVE Around(_, _, _, _, _, _, _, _)
Around(original, height, width, y0, x0, j, k, sum) ==
  IF k > 8 THEN sum
  ELSE LET y == y0 - 1 + (k \div 3)
           x == x0 - 1 + (k % 3)
       IN  Around(original, height, width, y0, x0, j, k + 1,
                  IF y < 0 \/ x < 0 \/ y = height \/ x = width THEN sum
                  ELSE [j |-> sum.j + original[y][x][j][1],
                        count |-> sum.count + 1])

\* One pass of Blur.apply over an image of whole numbers: every channel of
\* every pixel becomes pixel_sum // pixel_count over the copy.
BlurPass(original, height, width) ==
  [y0 \in 0 .. height - 1 |-> [x0 \in 0 .. width - 1 |-> [j \in 0 .. 2 |->
     LET sum == Around(original, height, width, y0, x0, j, 0,
                       [j |-> 0, count |-> 0])
     IN  Num(FloorDiv(sum.j, sum.count))]]]

RECURSIVE Blurred(_, _, _, _)
Blurred(data, height, width, repeats) ==
  IF repeats <= 0 THEN data
  ELSE Blurred(BlurPass(data, height, width), height, width, repeats - 1)

\* Blur.apply on an image: pixel_sum is an array of whole numbers, and numpy
\* refuses to add the pixel of a float image to it in place, at the first
\* pixel of the first pass.
Blur ==
  \E height \in 1 .. MaxSide : \E width \in 1 .. MaxSide :
  \E px \in Pixels :
  \E data \in {Ramp(height, width, IF px.dtype = "int" THEN Num(10) ELSE Rat(1, 32))} :
    /\ HasParams("Blur")
    /\ \E repeats \in {area.self.attrs.repeats} :
       area' = [pc |-> "returned", kind |-> "Blur", height |-> height,
                width |-> width, shape |-> ImageShape(height, width),
                dtype |-> px.dtype, original |-> data,
                attrs |-> area.self.attrs,
                data |-> IF px.dtype = "int"
                         THEN Blurred(data, height, width, repeats) ELSE data,
                err |-> IF px.dtype = "float" /\ repeats > 0
                        THEN "TypeError" ELSE ""]
    /\ UNCHANGED <<inst, params, filters, last, ref, driver>>

\* random_state.randint(low, high) of the i-th draw: the whole numbers of
\* [low, high) in the order of the uniform draw u, low + floor(u * (high - low)).
Randint(r, i, low, high) ==
  The({low + FloorDiv(u[1] * (high - low), u[2]) : u \in {Rand(r, i)}})

\* The sum over the pixels, from the k-th on row by row, of channel j times
\* 1, times x0 or times y0.
RECURSIVE Weighted(_, _, _, _, _, _)
Weighted(data, height, width, j, axis, k) ==
  IF k >= height * width THEN Num(0)
  ELSE RatAdd(RatMul(Num(CASE axis = "x" -> k % width
                           [] axis = "y" -> k \div width
                           [] OTHER -> 1),
                     data[k \div width][k % width][j]),
              Weighted(data, height, width, j, axis, k + 1))

\* best_x and best_y of LensFlare.apply, for pixels that are not negative:
\* int((expected[0] + expected[1] + expected[2]) / 3), where expected[j]
\* sums x0 * node_data[y0][x0][j] / pixel_sum[j]. A channel that is black
\* all over divides 0 by 0, and int raises on the NaN.
Brightest(data, height, width, axis) ==
  The({IF \E j \in 0 .. 2 : sums[j] = Num(0) THEN Raise("ValueError")
       ELSE The({Val(Num(TruncDiv(e[1], e[2]))) :
                 e \in {RatMul(Rat(1, 3),
                               RatAdd(RatAdd(Rat(tops[0][1] * sums[0][2],
                                                 tops[0][2] * sums[0][1]),
                                             Rat(tops[1][1] * sums[1][2],
                                                 tops[1][2] * sums[1][1])),
                                      Rat(tops[2][1] * sums[2][2],
                                          tops[2][2] * sums[2][1])))}}) :
       sums \in {[j \in 0 .. 2 |-> Weighted(data, height, width, j, "", 0)]},
       tops \in {[j \in 0 .. 2 |-> Weighted(data, height, width, j, axis, 0)]}})

\* round(v + (target - v) * visibility) of flare, for a pixel at the squared
\* offset distance Q from the flare of the radius given: t is
\* min(1, sqrt(Q) / radius) and visibility is max(0, 3 * t * t - 2 * t) * 0.8.
FlarePixel(v, target, Q, radius) ==
  The({IF LessEq(Num(radius * radius), Q)
       THEN Num(Round(RatAdd(v, RatMul(g, Rat(4, 5)))))
       ELSE IF LessEq(RatMul(Num(9), Q), Num(4 * radius * radius))
       THEN Num(Round(v))
       ELSE The({The({IF Sq(root) = z.q
                      THEN Num(Round(RatAdd(z.a, RatMul(Num(z.sign), root))))
                      ELSE Num(FloorSurd(Surd(RatAdd(z.a, Rat(1, 2)), z.sign, z.q))) :
                      root \in {RootOf(z.q)}}) :
                 z \in {Surd(RatAdd(v, RatMul(RatMul(g, Rat(12, 5)),
                                              RatMul(Q, Rat(1, radius * radius)))),
                             0 - Sign(g),
                             RatMul(RatMul(Sq(g), Rat(64, 25)),
                                    RatMul(Q, Rat(1, radius * radius))))}}) :
       g \in {RatSub(target, v)}})

\* flare(x0, y0, radius) of LensFlare.apply: three colours and two offsets
\* are drawn, and every pixel of the image within the radius takes its new
\* colour.
flare(data, x0, y0, radius, R) ==
  LET target == <<Num(Randint(R, 2, 220, 255)), Num(Randint(R, 1, 130, 180)),
                  Num(Randint(R, 3, 0, 50))>>
      x_offset == Normal(R, 4, Num(0), Num(5))
      y_offset == Normal(R, 5, Num(0), Num(5))
  IN  [y \in DOMAIN data |-> [x \in DOMAIN data[y] |-> [j \in DOMAIN data[y][x] |->
         IF (x - x0) * (x - x0) + (y - y0) * (y - y0) > radius * radius
         THEN data[y][x][j]
         ELSE FlarePixel(data[y][x][j], target[j + 1],
                         RatAdd(Sq(RatAdd(Num(x - x0), x_offset)),
                                Sq(RatAdd(Num(y - y0), y_offset))),
                         radius)]]]

\* Whether the walk of LensFlare.apply has left after n steps from the
\* brightest spot towards the centre, which is D away:
\* D * D + 1 <= (n - D) * (n - D). A spot at the centre makes the step NaN,
\* and the walk does not leave.
Left(n, D2) ==
  /\ D2 # Num(0)
  /\ n >= 1
  /\ LessEq(RatMul(Num(4 * n * n), D2), Num((n * n - 1) * (n * n - 1)))

\* int(best + n * origo_vector) along one axis: towards is the offset of the
\* centre from the brightest spot along the axis.
Walked(best, n, towards, D2) ==
  TruncSurd(Surd(Num(best), Sign(towards),
                 RatMul(Num(n * n), RatMul(Sq(towards), Rat(D2[2], D2[1])))))

\* The flare of a pass with steps < 0: the radius is drawn, the flare is
\* drawn at the whole part of the position, and steps is drawn anew. st is
\* [data, rng, n, steps, flares, err]; c holds best_x, best_y and the offsets
\* of the centre.
Flared(st, c) ==
  IF ~Less(st.steps, Num(0)) THEN st
  ELSE IF c.D2 = Num(0)
  THEN [st EXCEPT !.rng = Advance(@, 1), !.err = "ValueError"]
  ELSE The({[st EXCEPT
               !.data = flare(st.data, Walked(c.best_x, st.n, c.to_x, c.D2),
                              Walked(c.best_y, st.n, c.to_y, c.D2), radius,
                              Advance(st.rng, 1)),
               !.steps = Normal(st.rng, 7, Num(radius), Num(15)),
               !.flares = @ + 1,
               !.rng = Advance(@, 7)] :
            radius \in {Round(The({IF Less(v, Num(40)) THEN Num(40) ELSE v :
                                   v \in {Normal(st.rng, 1, Num(100), Num(100))}}))}})

\* The walk `while True` of LensFlare.apply, from a pass on.
RECURSIVE Walk(_, _)
Walk(st, c) ==
  The({IF s.err # "" \/ Left(s.n, c.D2) THEN s
       ELSE Walk([s EXCEPT !.n = @ + 1, !.steps = RatSub(@, Num(1))], c) :
       s \in {Flared(st, c)}})

\* LensFlare.apply
LensFlareApply(data, height, width, R) ==
  The({IF best_y.err # "" THEN [data |-> data, rng |-> R, flares |-> 0, err |-> best_y.err]
       ELSE The({[data |-> w.data, rng |-> w.rng, flares |-> w.flares, err |-> w.err] :
                 w \in {Walk([data |-> data, rng |-> R, n |-> 0, steps |-> Num(0),
                              flares |-> 0, err |-> ""],
                             [best_x |-> best_x.v[1], best_y |-> best_y.v[1],
                              to_x |-> RatSub(Rat(width, 2), best_x.v),
                              to_y |-> RatSub(Rat(height, 2), best_y.v),
                              D2 |-> RatAdd(Sq(RatSub(Rat(width, 2), best_x.v)),
                                            Sq(RatSub(Rat(height, 2), best_y.v)))])}}) :
       best_x \in {Brightest(data, height, width, "x")},
       best_y \in {Brightest(data, height, width, "y")}})

\* An image that is black but for its last pixel.
Spot(height, width, v) ==
  [y \in 0 .. height - 1 |-> [x \in 0 .. width - 1 |-> [j \in 0 .. 2 |->
     IF y = height - 1 /\ x = width - 1 THEN v ELSE Num(0)]]]

\* The sides of the images of LensFlare: on them the sums of the brightest
\* spot are the same in floats as in fractions.
FlareSides == {1, 2}

\* LensFlare.apply on an image of one colour, on a black image and on a spot.
LensFlare ==
  \E height \in FlareSides : \E width \in FlareSides :
  \E px \in Pixels \cup {[dtype |-> "int", v |-> Num(0)]} :
  \E data \in {Image(height, width, px.v), Spot(height, width, px.v)} :
  \E R \in Sources :
  \E r \in {LensFlareApply(data, height, width, R)} :
    /\ HasParams("LensFlare")
    /\ area' = [pc |-> "returned", kind |-> "LensFlare", height |-> height,
                width |-> width, shape |-> ImageShape(height, width),
                dtype |-> px.dtype, original |-> data,
                rng0 |-> R, data |-> r.data, rng |-> r.rng, flares |-> r.flares,
                err |-> r.err]
    /\ UNCHANGED <<inst, params, filters, last, ref, driver>>

\* What a call of a library returns: PIL, scipy, imutils and OpenCV are no
\* part of the sources, and the call, the function with its arguments, stands
\* in the place of the value it returns.
Library(fn, args) == [fn |-> fn, args |-> args]

\* What numpy makes of the values of a library, which the model does not
\* know: the operation with its operands.
OnValues(op, args) == [op |-> op, args |-> args]

\* node_data[...] = value: the array keeps its shape and its dtype and takes
\* the values, converted to the dtype.
Assigned(dtype, height, width, value) ==
  [dtype |-> dtype, height |-> height, width |-> width, value |-> value]

\* The record of a call of apply that has returned what the library made,
\* on an image or on one channel of it.
Stores(kind, shape, px, data, value) ==
  [pc |-> "returned", kind |-> kind, height |-> shape[1], width |-> shape[2],
   shape |-> shape, dtype |-> px.dtype, original |-> data,
   attrs |-> area.self.attrs,
   node_data |-> Assigned(px.dtype, shape[1], shape[2], value), err |-> ""]

\* np.uint8(np.around(node_data)) for pixels from 0 to 255: to the nearest
\* whole number, halves to the even one.
Uint8Around(data) ==
  [y \in DOMAIN data |-> [x \in DOMAIN data[y] |->
     [j \in DOMAIN data[y][x] |-> Num(Round(data[y][x][j]))]]]

\* JPEG_Compression.apply, where PIL returns: the rounded image is saved as
\* JPEG of the quality, opened again and stored.
JPEG_Compression ==
  \E height \in FlareSides : \E width \in FlareSides : \E px \in Pixels :
  \E data \in {Image(height, width, px.v)} :
    /\ HasParams("JPEG_Compression")
    /\ area' = Stores("JPEG_Compression", ImageShape(height, width), px, data,
                        Library("np.array(Image.open(buf)) of iml.save(buf, JPEG)",
                                [iml |-> Uint8Around(data),
                                 quality |-> area.self.attrs.quality]))
    /\ UNCHANGED <<inst, params, filters, last, ref, driver>>

\* node_data[:, :, i]
Channel(data, i) == [y \in DOMAIN data |-> [x \in DOMAIN data[y] |-> data[y][x][i]]]

\* Blur_Gaussian.apply, where scipy returns: an array of two dimensions is
\* filtered as a whole, an image channel by channel; a channel is read
\* before it is written and no other channel is read for it.
Blur_Gaussian ==
  \E height \in FlareSides : \E width \in FlareSides : \E px \in Pixels :
  \E grey \in BOOLEAN :
  \E image \in {Image(height, width, px.v)} :
  \E data \in {IF grey THEN Channel(image, 0) ELSE image} :
    /\ HasParams("Blur_Gaussian")
    /\ area' = Stores("Blur_Gaussian",
                        IF grey THEN ChannelShape(ImageShape(height, width))
                        ELSE ImageShape(height, width),
                        px, data,
                        IF grey
                        THEN Library("gaussian_filter",
                                     [input |-> data, sigma |-> area.self.attrs.std])
                        ELSE OnValues("node_data[:, :, i] for i in range(3)",
                                      [channels |-> [i \in 0 .. 2 |->
                                         Library("gaussian_filter",
                                                 [input |-> Channel(data, i),
                                                  sigma |-> area.self.attrs.std])]]))
    /\ UNCHANGED <<inst, params, filters, last, ref, driver>>

\* resized.shape of cv2.resize(node_data, None, fx=factor, fy=factor) along a
\* side: the side times the factor 1.8, rounded.
ResizedSide(side) == Round(RatMul(Rat(9, 5), Num(side)))

\* x0 = round((resized_width - width) / 2), and y0 alike
Offset(side) == Round(Rat(ResizedSide(side) - side, 2))

\* Rotation.apply, where imutils and OpenCV return: the image is rotated in
\* place, resized, and the part of its own size from (y0, x0) on is stored.
Rotation ==
  \E height \in FlareSides : \E width \in FlareSides : \E px \in Pixels :
  \E data \in {Image(height, width, px.v)} :
    /\ HasParams("Rotation")
    /\ \E rotated \in {Assigned(px.dtype, height, width,
                                 Library("imutils.rotate",
                                         [image |-> data,
                                          angle |-> area.self.attrs.angle]))} :
       area' = Stores("Rotation", ImageShape(height, width), px, data,
                        OnValues("resized[y0:y0 + height, x0:x0 + width]",
                                 [resized |-> Library("cv2.resize",
                                                      [src |-> rotated,
                                                       fx |-> Rat(9, 5),
                                                       fy |-> Rat(9, 5)]),
                                  y0 |-> Offset(height), x0 |-> Offset(width)]))
    /\ UNCHANGED <<inst, params, filters, last, ref, driver>>

\* np.exp(v): 1 at 0, and a value of the library elsewhere.
Exp(v) ==
  IF v = Num(0) THEN OnValues("value", [v |-> Num(1)]) ELSE Library("np.exp", [v |-> v])

\* apply of BrightnessVectorized and of SaturationVectorized, where OpenCV
\* returns: the image as float32, divided by the range when that is 255, is
\* converted to HLS; channel c, the lightness 1 or the saturation 2, becomes
\* hls[:, :, c] * (1 - mult) + tar * mult, with mult = 1 - exp(-2 * rat) for
\* the lightness and 1 - exp(-2 * rat * hls[:, :, 2]) for the saturation;
\* the image is converted back and, multiplied by the range and cut to int8
\* when the range is 255 and clipped to [0, 1] otherwise, stored.
Recoloured(data, attrs, c) ==
  LET nd == OnValues("astype(float32)",
                     [node_data |-> data,
                      times |-> IF attrs.range = 255
                                THEN OnValues("1 / self.range", [range |-> attrs.range])
                                ELSE OnValues("value", [v |-> Num(1)])])
      hls == Library("cv2.cvtColor", [src |-> nd, code |-> "COLOR_RGB2HLS"])
      mult == IF c = 1
              THEN OnValues("1 - x", [x |-> Exp(RatMul(Num(0 - 2), attrs.rat))])
              ELSE OnValues("1 - np.exp(-2 * rat * hls[:, :, 2])",
                            [rat |-> attrs.rat, hls |-> hls])
      changed == OnValues("hls[:, :, c] = hls[:, :, c] * (1 - mult) + tar * mult",
                          [hls |-> hls, c |-> c, mult |-> mult, tar |-> attrs.tar])
      rgb == Library("cv2.cvtColor", [src |-> changed, code |-> "COLOR_HLS2RGB"])
  IN  IF attrs.range = 255
      THEN OnValues("(nd * self.range).astype(np.int8)",
                    [nd |-> rgb, range |-> attrs.range])
      ELSE OnValues("np.clip(nd, 0.0, 1.0)", [nd |-> rgb])

BrightnessVectorized ==
  \E height \in FlareSides : \E width \in FlareSides : \E px \in Pixels :
  \E data \in {Image(height, width, px.v)} :
    /\ HasParams("BrightnessVectorized")
    /\ area' = Stores("BrightnessVectorized", ImageShape(height, width), px, data,
                        Recoloured(data, area.self.attrs, 1))
    /\ UNCHANGED <<inst, params, filters, last, ref, driver>>

SaturationVectorized ==
  \E height \in FlareSides : \E width \in FlareSides : \E px \in Pixels :
  \E data \in {Image(height, width, px.v)} :
    /\ HasParams("SaturationVectorized")
    /\ area' = Stores("SaturationVectorized", ImageShape(height, width), px, data,
                        Recoloured(data, area.self.attrs, 2))
    /\ UNCHANGED <<inst, params, filters, last, ref, driver>>

NextSeeds ==
  \/ ResolveImage
  \/ StartSeeds
  \/ SeedIteration
  \/ Accumulate
  \/ Modify
  \/ Storm
  \/ Blur
  \/ LensFlare
  \/ JPEG_Compression
  \/ Blur_Gaussian
  \/ Rotation
  \/ BrightnessVectorized
  \/ SaturationVectorized

SpecSeeds == Init /\ [][NextSeeds]_vars

\* The loop is a loop of one thread: it goes on until it leaves.
SpecSeedsFair == SpecSeeds /\ WF_vars(SeedIteration)

\* C27 as stated: the seed loop of MissingArea, StainArea, FastRain and Snow
\* ends, for every probability and every grid size, the empty grid included:
\* every pass moves the flattened index up by at least 1, so a loop that has
\* not left has made at most width * height draws of geometric and an index
\* below width * height, it leaves after at most width * height + 1 draws, and
\* it does leave.
C27_SeedLoopEndsAsStated ==
  /\ [][SeedIteration => area'.ind > area.ind /\ area'.draws = area.draws + 1]_vars
  /\ [](area.pc \in {"seeding", "seeded"} =>
          /\ area.draws <= area.width * area.height + 1
          /\ area.pc = "seeding" =>
               /\ area.draws <= area.width * area.height
               /\ area.ind < area.width * area.height
               /\ Len(area.seeds) <= area.draws)
  /\ (area.pc = "seeding") ~> (area.pc = "seeded")

\* C27, amended: no pass of the seed loop moves the flattened index down, and
\* a pass moves it up by at least 1 when the probability is 1/3 or more or
\* the uniform draw is not 0.0; a pass raises only ZeroDivisionError, on a
\* grid of width 0 with the index still -1 after a draw of 0, where the
\* width is an int: in a filter of images and in MissingArea on a text
\* without a row. On a text whose rows are all empty the width 0 is a numpy
\* integer, and the pass leaves the difference array as it was and goes on.
\* For a probability of 1/3 or more, on every grid size, the empty grid included,
\* a loop that has not left has made at most width * height draws of
\* geometric and has an index below width * height, it leaves after at most
\* width * height + 1 draws without raising, and it does leave.
C27_SeedLoopEnds ==
  /\ [][SeedIteration =>
          /\ area'.draws = area.draws + 1
          /\ area'.ind >= area.ind
          /\ (BySearch(area.probability) \/ Rand(area.rng, 1) # Num(0)) =>
               area'.ind > area.ind
          /\ area'.err # "" =>
               /\ area'.err = "ZeroDivisionError"
               /\ area.width = 0 /\ area'.ind = 0 - 1
               /\ ~NumpyWidth(area)
               /\ ~BySearch(area.probability) /\ Rand(area.rng, 1) = Num(0)
          /\ (NumpyWidth(area) /\ area.width = 0) =>
               /\ area'.err = ""
               /\ area'.errs = area.errs]_vars
  /\ []((area.pc \in {"seeding", "seeded"} /\ BySearch(area.probability)) =>
          /\ area.draws <= area.width * area.height + 1
          /\ area.pc = "seeding" =>
               /\ area.draws <= area.width * area.height
               /\ area.ind < area.width * area.height
               /\ Len(area.seeds) <= area.draws)
  /\ (area.pc = "seeding" /\ BySearch(area.probability)) ~> (area.pc = "seeded")

\* A loop with a probability below 1/3 has left a grid after a pass that
\* drew 0 and made a seed in row -1.
C27_Witness ==
  /\ area.pc = "seeded"
  /\ ~BySearch(area.probability)
  /\ area.width > 0 /\ area.height > 0
  /\ area.draws > 1
  /\ \E k \in 1 .. Len(area.seeds) : area.seeds[k].y = 0 - 1

\* The loop has left the largest grid after width * height + 1 draws.
C27_LargestGrid ==
  /\ area.pc = "seeded"
  /\ area.width = MaxSide
  /\ area.height = MaxSide
  /\ area.draws = area.width * area.height + 1

\* The first pass of a loop with a probability below 1/3 drew 0 on a grid of
\* width 0 and raised ZeroDivisionError.
C27_DividedByZero ==
  /\ area.pc = "raised"
  /\ area.err = "ZeroDivisionError"
  /\ area.width = 0
  /\ area.draws = 1

\* The loop of MissingArea over a text of empty rows has left after a pass
\* that drew 0, divided by the width 0 and went on.
C27_DividedAndWentOn ==
  /\ area.pc = "seeded"
  /\ area.kind = "MissingArea"
  /\ area.width = 0 /\ area.height > 0
  /\ area.draws = 2
  /\ Len(area.seeds) = 1
  /\ area.seeds[1].y = 0 /\ area.seeds[1].x = 0 - 1
  /\ area.errs = Zeros(area.height, area.width)

\* The seeds of the loop whose rectangle of radius ry along y and rx along x
\* holds the cell (y, x).
Holding(seeds, y, x, ry, rx) ==
  {k \in 1 .. Len(seeds) :
     Abs(y - seeds[k].y) <= ry[k] /\ Abs(x - seeds[k].x) <= rx[k]}

\* C23 as stated: after the two sums every cell of the grid holds the number
\* of seeds whose square of the seed's radius r holds the cell.
C23_CountOfSquares ==
  (area.pc = "summed") =>
    \A y \in 0 .. area.height - 1 : \A x \in 0 .. area.width - 1 :
      area.errs[y][x] =
        Cardinality(Holding(area.seeds, y, x,
                            [k \in 1 .. Len(area.seeds) |-> area.seeds[k].r],
                            [k \in 1 .. Len(area.seeds) |-> area.seeds[k].r]))

\* C23: after the corner updates and the two sums every cell (y, x) of the
\* grid holds the number of seeds whose rectangle [y_s - r_y, y_s + r_y] x
\* [x_s - r_x, x_s + r_x] holds the cell, where StainArea and MissingArea
\* have r_y = r_x = the generated radius and FastRain has the drawn length as
\* r_y and r_x = 1; the mask of MissingArea is true exactly where the number
\* is positive.
C23_CountOfRectangles ==
  (area.pc = "summed") =>
    \A y \in 0 .. area.height - 1 : \A x \in 0 .. area.width - 1 :
      /\ area.errs[y][x] =
           Cardinality(Holding(area.seeds, y, x,
                               [k \in 1 .. Len(area.seeds) |-> area.seeds[k].r],
                               [k \in 1 .. Len(area.seeds) |->
                                  IF area.kind = "FastRain" THEN 1
                                  ELSE area.seeds[k].r]))
      /\ area.kind = "MissingArea" =>
           (area.mask[y][x] <=> area.errs[y][x] > 0)

\* FastRain has summed a grid in which a cell lies in the rectangles of two
\* seeds and two columns away from a third seed, whose drawn length reaches
\* the cell's row.
C23_Witness ==
  /\ area.pc = "summed"
  /\ area.kind = "FastRain"
  /\ \E y \in 0 .. area.height - 1 : \E x \in 0 .. area.width - 1 :
       /\ area.errs[y][x] >= 2
       /\ \E k \in 1 .. Len(area.seeds) :
            /\ Abs(area.seeds[k].x - x) = 2
            /\ Abs(area.seeds[k].y - y) <= area.seeds[k].r

\* The difference array without its last row and its last column.
Inner(errs, height, width) ==
  [y \in 0 .. height |-> [x \in 0 .. width |->
     IF y = height \/ x = width THEN 0 ELSE errs[y][x]]]

\* Whether the seed lies in the grid of the loop.
InGrid(seed) ==
  /\ 0 <= seed.y /\ seed.y < area.height
  /\ 0 <= seed.x /\ seed.x < area.width

\* C30: in StainArea, MissingArea and FastRain the corners of every seed in
\* the grid, whose radius is 0 or more, satisfy 0 <= x0 < x1 <= width and
\* 0 <= y0 < y1 <= height, so the four writes land in the (height + 1) x
\* (width + 1) array, and the cells of the grid after the two sums are what
\* they are without the last row and the last column of the array. Every
\* seed lies in the grid when the probability is 1/3 or more; the only other
\* seeds lie in row -1 or, on a text of empty rows, at (0, -1) with
\* x0 = x1 = 0, and their writes land in the array too.
C30_CornersInside ==
  (area.pc \in {"seeding", "seeded", "summed", "returned"}
     /\ area.kind \in AreaKinds) =>
    /\ \A k \in 1 .. Len(area.seeds) :
         /\ area.seeds[k].r >= 0
         /\ InGrid(area.seeds[k]) =>
              /\ 0 <= area.seeds[k].x0 /\ area.seeds[k].x0 < area.seeds[k].x1
              /\ area.seeds[k].x1 <= area.width
              /\ 0 <= area.seeds[k].y0 /\ area.seeds[k].y0 < area.seeds[k].y1
              /\ area.seeds[k].y1 <= area.height
         /\ BySearch(area.probability) => InGrid(area.seeds[k])
         /\ ~InGrid(area.seeds[k]) =>
              /\ IF area.width = 0
                 THEN /\ NumpyWidth(area)
                      /\ area.seeds[k].y = 0 /\ area.seeds[k].x = 0 - 1
                      /\ area.seeds[k].x0 = 0 /\ area.seeds[k].x1 = 0
                 ELSE /\ area.seeds[k].y = 0 - 1
                      /\ 0 <= area.seeds[k].x /\ area.seeds[k].x < area.width
                      /\ 0 <= area.seeds[k].x0
                      /\ area.seeds[k].x0 < area.seeds[k].x1
                      /\ area.seeds[k].x1 <= area.width
              /\ 0 = area.seeds[k].y0 /\ area.seeds[k].y0 <= area.seeds[k].y1
              /\ area.seeds[k].y1 <= area.height
    /\ area.pc = "summed" =>
         \A y \in 0 .. area.height - 1 : \A x \in 0 .. area.width - 1 :
           area.errs[y][x] =
             Accumulated(Inner(area.diff, area.height, area.width))[y][x]

\* A rectangle that reaches the last row and the last column of the grid has
\* written to the last row and the last column of the array.
C30_Witness ==
  /\ area.pc = "summed"
  /\ area.kind \in AreaKinds
  /\ area.diff[area.height][area.width] # 0
  /\ \E k \in 1 .. Len(area.seeds) :
       /\ area.seeds[k].x1 = area.width
       /\ area.seeds[k].y1 = area.height
       /\ area.seeds[k].r = 0

---------------------------------------------------------------------------
(* MissingArea on an array of strings *)

Newline == "\n"

\* row_starts of the string from its j-th character on: 0, the position after
\* every newline, and the length of the string unless it is the last entry.
RECURSIVE RowStarts(_, _, _)
RowStarts(string, j, acc) ==
  IF j > Len(string)
  THEN IF acc[Len(acc)] # Len(string) THEN Append(acc, Len(string)) ELSE acc
  ELSE RowStarts(string, j + 1,
                 IF string[j] = Newline THEN Append(acc, j) ELSE acc)

\* Mutant: the width of a row counts its newline.
WidthsWithNewline(row_starts) ==
  [i \in 1 .. Len(row_starts) - 1 |-> row_starts[i + 1] - row_starts[i]]

\* widths = [row_starts[i + 1] - row_starts[i] - 1 for i in range(height)]
Widths(row_starts) ==
  [i \in 1 .. Len(row_starts) - 1 |-> row_starts[i + 1] - row_starts[i] - 1]

\* np.max(widths), or 0 when there is no row
RECURSIVE MaxOf(_, _)
MaxOf(widths, i) ==
  IF i > Len(widths) THEN 0 ELSE Max2(widths[i], MaxOf(widths, i + 1))

\* mask[row_starts[y] : row_starts[y] + widths[y]] = errs[y, 0 : widths[y]],
\* for every row y; the i-th character is at position i - 1.
MaskOf(string, row_starts, widths, errs) ==
  [i \in 1 .. Len(string) |->
     \E y \in 1 .. Len(widths) :
       /\ row_starts[y] <= i - 1
       /\ i - 1 < row_starts[y] + widths[y]
       /\ errs[y - 1][i - 1 - row_starts[y]]]

\* "".join([' ' if mask[i] else string[i] for i in range(len(mask))])
Stained(string, mask) ==
  [i \in 1 .. Len(string) |-> IF mask[i] THEN " " ELSE string[i]]

\* mask = np.zeros(len(string))
NoMask(string) == [j \in 1 .. Len(string) |-> FALSE]

\* One string of the array, from the rows to the new string: the new string,
\* the mask, the source after the loop and the error of the loop, after which
\* the string is not stored.
AreaString(string, attrs, R) ==
  The({IF a.err # ""
       THEN [out |-> string, mask |-> NoMask(string), rng |-> a.rng, err |-> a.err]
       ELSE The({[out |-> Stained(string, mask), mask |-> mask, rng |-> a.rng,
                  err |-> ""] :
                 mask \in {MaskOf(string, row_starts, widths,
                                   Positive(Accumulated(a.errs)))}}) :
       row_starts \in {RowStarts(string, 1, <<0>>)},
       widths \in {Widths(RowStarts(string, 1, <<0>>))},
       a \in {SeedLoop(EnterLoop("MissingArea",
                 Len(RowStarts(string, 1, <<0>>)) - 1,
                 MaxOf(Widths(RowStarts(string, 1, <<0>>)), 1),
                 attrs.probability, attrs.radius_generator, R))}})

\* for index, _ in np.ndenumerate(node_data), from the i-th string on; st is
\* [elems, masks, rng, err]. The walk ends with the error of the first loop
\* that raises: the strings before it are stored, and that string and the
\* strings after it are what they were.
RECURSIVE AreaWalk(_, _, _, _)
AreaWalk(T, i, st, attrs) ==
  IF i > Len(T.elems) THEN st
  ELSE The({IF r.err # ""
            THEN [elems |-> st.elems \o SubSeq(T.elems, i, Len(T.elems)),
                  masks |-> st.masks
                              \o [k \in 1 .. Len(T.elems) - i + 1 |->
                                    NoMask(T.elems[i + k - 1])],
                  rng |-> r.rng, err |-> r.err]
            ELSE AreaWalk(T, i + 1,
                          [elems |-> Append(st.elems, StoreString(T.width, r.out)),
                           masks |-> Append(st.masks, r.mask), rng |-> r.rng,
                           err |-> ""],
                          attrs) :
            r \in {AreaString(T.elems[i], attrs, st.rng)}})

\* MissingArea.apply: the array, the masks of its strings, the source
\* afterwards and the error apply ends with. A probability of 0 returns at
\* once.
MissingAreaApply(o, T, R) ==
  IF o.attrs.probability = Num(0)
  THEN [elems |-> T.elems, rng |-> R,
        masks |-> [i \in 1 .. Len(T.elems) |-> NoMask(T.elems[i])], err |-> ""]
  ELSE AreaWalk(T, 1, [elems |-> << >>, masks |-> << >>, rng |-> R, err |-> ""],
                o.attrs)

\* MissingArea(probability_id, radius_generator_id, missing_value_id)
AreaFilter == NewFilter("MissingArea", <<"prob", "radius_generator", "missing_value">>)

\* The tables of the radius generators: radius 0 or 1, and always radius 1.
AreaTables == RadiusTables \cup {<<Num(0), Num(1)>>}

AreaMappings ==
  {[prob |-> p, radius_generator |-> t, missing_value |-> v] :
     p \in AreaProbs, t \in AreaTables, v \in {"#", " "}}

\* Texts of rows of equal and of different widths, with and without a last
\* newline, of empty rows, and the empty text; one and two texts in an array.
AreaTensors ==
  {Strings(<<<<"a", "b", Newline, "a", "b">>>>),
   Strings(<<<<"a", "b", Newline, "a", Newline>>, <<"a">>>>),
   Strings(<<<<"a", Newline, "b", Newline>>, <<"a", "b", "a", Newline>>>>),
   Strings(<<<<Newline, Newline>>, <<"a", Newline, Newline, "b", "a">>>>),
   Strings(<<<< >>, <<"a", Newline>>>>)}

\* x_node.addfilter(MissingArea(...)) and set_params(params_dict), for a call
\* of apply on an array of texts.
ResolveArea ==
  \E P \in AreaMappings :
    /\ area.pc = "idle"
    /\ filters = << >>
    /\ area' = [pc |-> "text", params |-> P,
                self |-> [AreaFilter EXCEPT !.attrs = Resolve(AreaFilter, P).attrs]]
    /\ UNCHANGED <<inst, params, filters, last, ref, driver>>

\* apply(node_data, random_state, named_dims) of the resolved filter
ApplyArea ==
  \E T \in AreaTensors : \E R \in Sources :
    /\ area.pc = "text"
    /\ \E r \in {MissingAreaApply(area.self, T, R)} :
         /\ r.err # Unmodelled
         /\ area' = [area EXCEPT !.pc = IF r.err = "" THEN "applied" ELSE "raised"]
                      @@ [data |-> T, rng |-> R, out |-> r.elems,
                          masks |-> r.masks, rng_out |-> r.rng, err |-> r.err]
    /\ UNCHANGED <<inst, params, filters, last, ref, driver>>

NextArea == ResolveArea \/ ApplyArea

SpecArea == Init /\ [][NextArea]_vars

\* C25: MissingArea.apply never changes a newline: every position that holds
\* a newline in a string of the input holds a newline in the string of the
\* output, and the string of the output is as long as the string of the input.
C25_NewlinesKept ==
  (area.pc = "applied") =>
    /\ Len(area.out) = Len(area.data.elems)
    /\ \A i \in 1 .. Len(area.data.elems) :
         /\ Len(area.out[i]) = Len(area.data.elems[i])
         /\ \A j \in 1 .. Len(area.data.elems[i]) :
              area.data.elems[i][j] = Newline => area.out[i][j] = Newline

\* A text of two rows has lost every character of its first row and the
\* first character of its second row, and kept its newline.
C25_Witness ==
  /\ area.pc = "applied"
  /\ \E i \in 1 .. Len(area.data.elems) :
       /\ Len(area.data.elems[i]) >= 4
       /\ \E j \in 2 .. Len(area.data.elems[i]) - 1 :
            /\ area.data.elems[i][j] = Newline
            /\ area.out[i][j] = Newline
            /\ \A k \in 1 .. j - 1 : area.masks[i][k]
            /\ area.masks[i][j + 1]
            /\ area.out[i] # area.data.elems[i]

\* C26 as stated: every masked character of the output is the missing value
\* the mapping holds under missing_value_id, and every other character is the
\* character of the input.
C26_MaskedAreMissingValue ==
  (area.pc = "applied") =>
    \A i \in 1 .. Len(area.data.elems) :
      \A j \in 1 .. Len(area.data.elems[i]) :
        area.out[i][j] =
          IF area.masks[i][j] THEN area.params[area.self.ids[3]]
          ELSE area.data.elems[i][j]

---------------------------------------------------------------------------
(* Every filter, one per behaviour: the shape of the data *)

\* The filters of SpecFilters, the other leaves and composites, every
\* BinaryFilter and the time-dependent noise.
ShapeKinds ==
  NodeKinds \cup BinaryKinds \cup {"gap", "const", "ident", "awp", "diff", "gntd"}

\* The mappings of the filters: a Constant of 2 or of 0 as the first child,
\* Identity or Missing as the second, Missing below ApplyWithProbability.
ShapeMappings(f) ==
  IF f \in NodeKinds THEN FilterMappings(f)
  ELSE IF f = "gntd" THEN TimeMappings
  ELSE {[prob |-> Rat(1, 2), prob_break |-> Rat(1, 2), prob_recover |-> Rat(1, 2),
         missing_value |-> NaN, value |-> v, ftr |-> "missing",
         awp_prob |-> Rat(1, 2), filter_a |-> "const", filter_b |-> b] :
          v \in {Num(2), Num(0)}, b \in {"ident", "missing"}}

AttachShape ==
  \E f \in ShapeKinds : filters = << >> /\ area = NoArea /\ addfilter(f)

ResolveShape ==
  \E f \in Range(filters) : \E m \in ShapeMappings(f) : SetParamsCall(f, m)

\* apply with the named dimensions of a caller; only the time-dependent noise
\* reads them. The call follows set_params, or an apply call that changed
\* the state of a filter object.
ApplyShape ==
  \E f \in Range(filters) : \E T \in FilterInputs(f) : \E R \in FilterSources :
    /\ last.op = "set_params" \/ (last.op = "apply" /\ inst # last.inst0)
    /\ IF f = "gntd"
       THEN \E D \in NamedDims : ApplyInCall(f, T, R, D)
       ELSE ApplyCall(f, T, R)

\* The filters of a node, MissingArea on texts, and the filters of images.
NextShape ==
  AttachShape \/ ResolveShape \/ ApplyShape \/ ResolveArea \/ ApplyArea
    \/ NextSeeds

SpecShape == Init /\ [][NextShape]_vars

\* Whether the array of the shape and the pixels given is an image of height
\* rows, width columns and, for a colour image, three channels: by its
\* shape, and by the rows, the columns and the channels of its pixels.
GridShape(shape, grid, height, width, grey) ==
  /\ shape = IF grey THEN <<height, width>> ELSE <<height, width, 3>>
  /\ DOMAIN grid = 0 .. height - 1
  /\ \A y \in DOMAIN grid :
       /\ DOMAIN grid[y] = 0 .. width - 1
       /\ ~grey => \A x \in DOMAIN grid[y] : DOMAIN grid[y][x] = 0 .. 2

\* An apply call of MissingArea on an array of texts has returned: the array
\* has the number of texts it had.
TextShapeKept ==
  (area.pc = "applied") => Len(area.out) = Len(area.data.elems)

\* Every text has the length it had.
TextLengthKept ==
  (area.pc = "applied") =>
    \A i \in 1 .. Len(area.data.elems) :
      Len(area.out[i]) = Len(area.data.elems[i])

\* An apply call of a filter of images has returned: the image has the rows,
\* the columns, the channels and the element type of the image it was handed.
ImageShapeKept ==
  (area.pc = "returned" /\ area.err = "") =>
    IF "node_data" \in DOMAIN area
    THEN /\ area.node_data.dtype = area.dtype
         /\ \E grey \in BOOLEAN :
              /\ GridShape(area.shape, area.original, area.height, area.width,
                           grey)
              /\ GridShape(area.shape, area.original, area.node_data.height,
                           area.node_data.width, grey)
    ELSE /\ GridShape(area.shape, area.data, area.height, area.width, FALSE)
         /\ "original" \in DOMAIN area =>
              GridShape(area.shape, area.original, area.height, area.width,
                        FALSE)

\* C15 as stated: after every apply call that returns, the tensor has the
\* shape and the number of elements it had, and every string of string data
\* has the length it had.
C15_ShapeAndLengthKept ==
  /\ Returned =>
       /\ SameShape
       /\ \A a \in Arrays :
            a.after.dtype = "str" =>
              \A i \in 1 .. Len(a.after.elems) :
                Len(a.after.elems[i]) = Len(a.before.elems[i])
  /\ TextShapeKept /\ TextLengthKept
  /\ ImageShapeKept

\* C15: after every apply call that returns, of every filter, the tensor has
\* the shape, the number of elements and the element type it had. A string
\* of string data keeps its length under MissingArea and under OCRError with
\* single-character replacements, and under Uppercase when every character
\* has a one-character uppercase form; otherwise Uppercase lengthens it, up
\* to the item width of the array.
C15_ShapePreserved ==
  /\ Returned =>
       /\ SameShape
       /\ \A a \in Arrays :
            a.after.dtype = "str" =>
              \A i \in 1 .. Len(a.after.elems) :
                IF last.inst0[last.f].kind = "Uppercase"
                THEN /\ Len(a.after.elems[i]) >= Len(a.before.elems[i])
                     /\ Len(a.after.elems[i]) <= a.before.width
                     /\ PlainUpper(a.before.elems[i]) =>
                          Len(a.after.elems[i]) = Len(a.before.elems[i])
                ELSE Len(a.after.elems[i]) = Len(a.before.elems[i])
  /\ TextShapeKept /\ TextLengthKept
  /\ ImageShapeKept

\* Uppercase has turned the strings of a two-string array to upper case, the
\* first of them a sharp s.
C15_Witness ==
  /\ Returned
  /\ last.inst0[last.f].kind = "Uppercase"
  /\ Len(last.data0.elems) = 2
  /\ ~PlainUpper(last.data0.elems[1])
  /\ last.data.elems[2] = <<"A", "B">>
  /\ SameShape

\* MissingArea has blanked a character of a text and returned.
C15_TextReturned ==
  /\ area.pc = "applied"
  /\ \E i \in 1 .. Len(area.out) : area.out[i] # area.data.elems[i]

\* Rotation has stored what the libraries returned in an image.
C15_ImageReturned ==
  /\ area.pc = "returned"
  /\ area.kind = "Rotation" /\ area.height # area.width

\* The time-dependent noise has returned.
C15_TimeReturned ==
  /\ Returned /\ last.inst0[last.f].kind = "GaussianNoiseTimeDependent"
  /\ last.data # last.data0

====
